---- MODULE Spec2Model ----
(***************************************************************************)
(* A model of the GBEmu core: the register file with its overlapping 8/16  *)
(* bit views (src/src/cpu/register.rs), the address space with its region  *)
(* dispatch (src/src/mem/memory.rs), the opcode decoder                    *)
(* (src/src/gba/opcode.rs) and the execution engine                        *)
(* (src/src/gba/console.rs).                                               *)
(*                                                                         *)
(* A machine is a record g:                                                *)
(*   registers  the 12 bytes of `struct Registers`, as as_u8_slice sees it *)
(*   mem        the four RAM arrays of `struct Mem` (sparse: a cell that   *)
(*              is absent holds 0, the value Mem::new fills them with)     *)
(*   cart       the cartridge image behind rom_bank / rom_switch           *)
(*   ime        Cpu::ime                                                   *)
(*   build      what the source leaves to the compiler (see Builds)        *)
(*   cycles     the cycle count of the running / last execute() call       *)
(*   fault      "none", or the panic that ended the process                *)
(* Every operation of the program is an operator from machines to machines;*)
(* after a panic every mutator is a no-op, so a faulted machine shows the  *)
(* partial effects the instruction had before it panicked.                 *)
(***************************************************************************)
EXTENDS Integers, Sequences, FiniteSets, TLC

VARIABLES registers, mem, ime, cart, build, cycles, fault, trace, limit

vars == <<registers, mem, ime, cart, build, cycles, fault, trace, limit>>

Byte == 0 .. 255
Word == 0 .. 65535

\* ------------------------------------------------------------------ bits

RECURSIVE BitAndN(_, _, _)
BitAndN(x, y, n) ==
    IF n = 0 THEN 0
    ELSE (x % 2) * (y % 2) + 2 * BitAndN(x \div 2, y \div 2, n - 1)

RECURSIVE BitXorN(_, _, _)
BitXorN(x, y, n) ==
    IF n = 0 THEN 0
    ELSE ((x + y) % 2) + 2 * BitXorN(x \div 2, y \div 2, n - 1)

BitAnd(x, y) == BitAndN(x, y, 16)
BitXor(x, y) == BitXorN(x, y, 16)
BitOr(x, y) == x + y - BitAnd(x, y)
\* !x on a u8
Not8(x) == 255 - x
\* x as u8 / x as u16 of a non-negative or negative integer (two's complement)
WrapU8(x) == x % 256
WrapU16(x) == x % 65536
\* (x as i8) of a u8
AsI8(x) == IF x >= 128 THEN x - 256 ELSE x

\* --------------------------------------------------------------- builds
(* What the source does not fix and the compiler decides:                  *)
(*  layout: `struct Registers` has no #[repr(C)], so the order of its      *)
(*    fields in memory is unspecified. "declared" is the order written;    *)
(*    "aligned" is the order rustc's layout pass produces (fields sorted   *)
(*    by descending alignment, stable): sp, pc, b, c, d, e, h, l, a, f.    *)
(*  endian: as_u16_slice reinterprets byte pairs as native u16.            *)
(*  overflow_checks: `+`, `-`, `+=`, `-=` on u8/u16 panic on overflow in a *)
(*    debug build and wrap in a release build.                             *)
Layouts == {"declared", "aligned"}
Endians == {"little", "big"}
Builds == [layout : Layouts, endian : Endians, overflow_checks : BOOLEAN]

\* Byte offset of a field of `struct Registers`.
FieldOffset(b, field) ==
    IF b.layout = "declared"
    THEN CASE field = "b" -> 0 [] field = "c" -> 1 [] field = "d" -> 2
           [] field = "e" -> 3 [] field = "h" -> 4 [] field = "l" -> 5
           [] field = "a" -> 6 [] field = "f" -> 7
           [] field = "sp" -> 8 [] field = "pc" -> 10
    ELSE CASE field = "sp" -> 0 [] field = "pc" -> 2
           [] field = "b" -> 4 [] field = "c" -> 5 [] field = "d" -> 6
           [] field = "e" -> 7 [] field = "h" -> 8 [] field = "l" -> 9
           [] field = "a" -> 10 [] field = "f" -> 11

\* A native u16 at byte offset off of the register bytes r.
NativeU16(b, r, off) ==
    IF b.endian = "little" THEN r[off] + 256 * r[off + 1]
    ELSE 256 * r[off] + r[off + 1]

StoreNativeU16(b, r, off, w) ==
    IF b.endian = "little"
    THEN [r EXCEPT ![off] = w % 256, ![off + 1] = w \div 256]
    ELSE [r EXCEPT ![off] = w \div 256, ![off + 1] = w % 256]

\* ------------------------------------------------------------ evaluation
(* F(e), with e evaluated once and F applied to its value. Every operator  *)
(* from machines to machines binds its machine this way, so that a chain   *)
(* of them is evaluated in linear time.                                    *)
Bind(e, F(_)) == CHOOSE r \in {F(x) : x \in {e}} : TRUE

\* ---------------------------------------------------------------- flags

FlagZero == \h80
FlagSubtract == \h40
FlagHalfCarry == \h20
FlagCarry == \h10
Flags == {FlagZero, FlagSubtract, FlagHalfCarry, FlagCarry}

\* F8::is_set
is_set(f, flag) == BitAnd(f, flag) # 0

\* ------------------------------------------------------------ registers

Faulted(g) == g.fault # "none"
Panic(g0, kind) ==
    Bind(g0, LAMBDA g :
    IF Faulted(g) THEN g ELSE [g EXCEPT !.fault = kind])

\* Registers::get_r8 / set_r8: index into the struct's bytes.
get_r8(g, idx) == g.registers[idx]

set_r8(g0, idx, value) ==
    Bind(g0, LAMBDA g :
    IF Faulted(g) THEN g
    ELSE [g EXCEPT !.registers[idx] = value])

\* Registers::get_r16 / set_r16: index into the struct's bytes seen as u16s.
get_r16(g, idx) == NativeU16(g.build, g.registers, 2 * idx)

set_r16(g0, idx, value) ==
    Bind(g0, LAMBDA g :
    IF Faulted(g) THEN g
    ELSE [g EXCEPT !.registers = StoreNativeU16(g.build, @, 2 * idx, value)])

\* Direct field access: self.cpu.registers.a, .f, .c, .sp, .pc
Field8(g, field) == g.registers[FieldOffset(g.build, field)]

SetField8(g0, field, value) ==
    Bind(g0, LAMBDA g :
    IF Faulted(g) THEN g
    ELSE [g EXCEPT !.registers[FieldOffset(g.build, field)] = value])

Field16(g, field) == NativeU16(g.build, g.registers, FieldOffset(g.build, field))

SetField16(g0, field, value) ==
    Bind(g0, LAMBDA g :
    IF Faulted(g) THEN g
    ELSE [g EXCEPT !.registers =
            StoreNativeU16(g.build, @, FieldOffset(g.build, field), value)])

RegA(g) == Field8(g, "a")
RegF(g) == Field8(g, "f")
RegSP(g) == Field16(g, "sp")
RegPC(g) == Field16(g, "pc")

\* enum Register8 / Register16 discriminants
R8_B == 0
R8_A == 6
R8_F == 7
R16_BC == 0
R16_DE == 1
R16_HL == 2
R16_AF == 3
R16_SP == 4
R16_PC == 5
Register16 == 0 .. 5

\* --------------------------------------------------------------- memory
\* A region table whose I/O ports reach one address further, to 0xFF4C.
RegionLongPorts(index) ==
    CASE index >= \hFF80 -> "ram_stack"
      [] index >= \hFF4D /\ index <= \hFF7F -> "unusable"
      [] index >= \hFF00 /\ index <= \hFF4C -> "io_ports"
      [] index >= \hFEA0 /\ index <= \hFEFF -> "unusable"
      [] index >= \hFE00 /\ index <= \hFE9F -> "sprite_oam"
      [] index >= \hE000 /\ index <= \hFDFF -> "ram"
      [] index >= \h8000 /\ index <= \hDFFF -> "ram"
      [] index >= \h4000 /\ index <= \h7FFF -> "rom_switch"
      [] OTHER -> "rom_bank"

(* Mem's Index / IndexMut: the region an address falls in. The echo range  *)
(* 0xE000..0xFDFF indexes `ram` at index - 0xA000, the cells that          *)
(* 0xC000..0xDDFF reach at index - 0x8000.                                 *)
Region(index) ==
    CASE index >= \hFF80 -> "ram_stack"
      [] index >= \hFF4C /\ index <= \hFF7F -> "unusable"
      [] index >= \hFF00 /\ index <= \hFF4B -> "io_ports"
      [] index >= \hFEA0 /\ index <= \hFEFF -> "unusable"
      [] index >= \hFE00 /\ index <= \hFE9F -> "sprite_oam"
      [] index >= \hE000 /\ index <= \hFDFF -> "ram"
      [] index >= \h8000 /\ index <= \hDFFF -> "ram"
      [] index >= \h4000 /\ index <= \h7FFF -> "rom_switch"
      [] OTHER -> "rom_bank"

\* A region index whose echo range starts at the first cell of `ram`.
RegionIndexEchoFromZero(index) ==
    CASE index >= \hFF80 -> index - \hFF80
      [] index >= \hFF4C /\ index <= \hFF7F -> 0
      [] index >= \hFF00 /\ index <= \hFF4B -> index - \hFF00
      [] index >= \hFEA0 /\ index <= \hFEFF -> 0
      [] index >= \hFE00 /\ index <= \hFE9F -> index - \hFE00
      [] index >= \hE000 /\ index <= \hFDFF -> index - \hE000
      [] index >= \h8000 /\ index <= \hDFFF -> index - \h8000
      [] index >= \h4000 /\ index <= \h7FFF -> index - \h4000
      [] OTHER -> index

\* The index into the region's backing array.
RegionIndex(index) ==
    CASE index >= \hFF80 -> index - \hFF80
      [] index >= \hFF4C /\ index <= \hFF7F -> 0
      [] index >= \hFF00 /\ index <= \hFF4B -> index - \hFF00
      [] index >= \hFEA0 /\ index <= \hFEFF -> 0
      [] index >= \hFE00 /\ index <= \hFE9F -> index - \hFE00
      [] index >= \hE000 /\ index <= \hFDFF -> index - \hA000
      [] index >= \h8000 /\ index <= \hDFFF -> index - \h8000
      [] index >= \h4000 /\ index <= \h7FFF -> index - \h4000
      [] OTHER -> index

\* cart.data[i], i < 0x4000: the image is its pattern, repeated.
CartByte(c, i) == c[(i % Len(c)) + 1]

\* A cell of one of the RAM arrays; an absent cell holds 0.
Cell(array, i) == IF i \in DOMAIN array THEN array[i] ELSE 0

SetCell(array, i, value) ==
    IF value = 0 THEN [k \in DOMAIN array \ {i} |-> array[k]]
    ELSE [k \in DOMAIN array \cup {i} |-> IF k = i THEN value ELSE array[k]]

\* Whether Index (a read) / IndexMut (a write) of the address panics.
ReadPanics(index) == Region(index) = "unusable"
WritePanics(index) == Region(index) \in {"unusable", "rom_bank", "rom_switch"}

\* Mem::get_u8: the byte read (0 where the read panics: the caller never
\* uses it, the machine being faulted by Probe).
get_u8(g, index) ==
    LET region == Region(index)
        i == RegionIndex(index)
    IN CASE region = "ram_stack" -> Cell(g.mem.ram_stack, i)
         [] region = "io_ports" -> Cell(g.mem.io_ports, i)
         [] region = "sprite_oam" -> Cell(g.mem.sprite_oam, i)
         [] region = "ram" -> Cell(g.mem.ram, i)
         [] region = "rom_switch" -> CartByte(g.cart, i)
         [] region = "rom_bank" -> CartByte(g.cart, i)
         [] OTHER -> 0

\* The machine after a get_u8 of the address: faulted if the read panics.
Probe(g0, index) ==
    Bind(g0, LAMBDA g :
    IF ReadPanics(index) THEN Panic(g, "unusable") ELSE g)

\* `x + y` / `x - y` on unsigned integers of the given maximum: the machine
\* after it (a debug build panics on overflow) and the value (wrapped).
Arith(g0, v, max) ==
    Bind(g0, LAMBDA g :
    IF g.build.overflow_checks /\ (v < 0 \/ v > max)
    THEN Panic(g, "overflow") ELSE g)

\* Mem::get_u16: low byte at index, high byte at index + 1.
get_u16(g, index) ==
    get_u8(g, index) + 256 * get_u8(g, WrapU16(index + 1))

Probe16(g0, index) ==
    Bind(g0, LAMBDA g :
    Probe(Arith(Probe(g, index), index + 1, 65535), WrapU16(index + 1)))

\* A set_u8 that stores into the cartridge image instead of panicking.
set_u8_into_rom(g0, index, value) ==
    Bind(g0, LAMBDA g :
    LET region == Region(index)
        i == RegionIndex(index)
    IN IF Faulted(g) THEN g
       ELSE CASE region = "ram_stack" ->
                   [g EXCEPT !.mem.ram_stack = SetCell(@, i, value)]
              [] region = "io_ports" ->
                   [g EXCEPT !.mem.io_ports = SetCell(@, i, value)]
              [] region = "sprite_oam" ->
                   [g EXCEPT !.mem.sprite_oam = SetCell(@, i, value)]
              [] region = "ram" ->
                   [g EXCEPT !.mem.ram = SetCell(@, i, value)]
              [] region = "unusable" -> Panic(g, "unusable")
              [] OTHER -> [g EXCEPT !.cart[(i % Len(g.cart)) + 1] = value])

\* Mem::set_u8
set_u8(g0, index, value) ==
    Bind(g0, LAMBDA g :
    LET region == Region(index)
        i == RegionIndex(index)
    IN IF Faulted(g) THEN g
       ELSE CASE region = "ram_stack" ->
                   [g EXCEPT !.mem.ram_stack = SetCell(@, i, value)]
              [] region = "io_ports" ->
                   [g EXCEPT !.mem.io_ports = SetCell(@, i, value)]
              [] region = "sprite_oam" ->
                   [g EXCEPT !.mem.sprite_oam = SetCell(@, i, value)]
              [] region = "ram" ->
                   [g EXCEPT !.mem.ram = SetCell(@, i, value)]
              [] region = "unusable" -> Panic(g, "unusable")
              [] OTHER -> Panic(g, "rom_write"))

\* A set_u16 that stores the high byte at index and the low byte after it.
set_u16_high_first(g0, index, value) ==
    Bind(g0, LAMBDA g :
    LET g1 == set_u8(g, index, value \div 256)
        g2 == Arith(g1, index + 1, 65535)
    IN set_u8(g2, WrapU16(index + 1), value % 256))

\* Mem::set_u16: low byte first, then the high byte at index + 1.
set_u16(g0, index, value) ==
    Bind(g0, LAMBDA g :
    LET g1 == set_u8(g, index, value % 256)
        g2 == Arith(g1, index + 1, 65535)
    IN set_u8(g2, WrapU16(index + 1), value \div 256))


\* ------------------------------------------------------------- decoder types
\* enum OpcodeRegister8 { B = 0, C, D, E, H, L, HL, A }
OR8_HL == 6
OR8_A == 7
OpcodeRegister8 == 0 .. 7
\* enum OpcodeRegister16 { BC = 0, DE, HL, AF }
OpcodeRegister16 == 0 .. 3
\* enum OpcodeIndirectRegister16 { BC = 0, DE, HLInc, HLDec }
IND_HLInc == 2
IND_HLDec == 3
OpcodeIndirectRegister16 == 0 .. 3
\* enum MathOp { Add = 0, Adc, Sub, Sbc, And, Xor, Or, Cp }
MathOp == 0 .. 7
\* enum LoadDirection { Memory, Accumulator }
DIR_Memory == 0
DIR_Accumulator == 1
\* enum JumpCondition { Always, SetFlag(Flags), UnsetFlag(Flags) }
COND_Always == 0
COND_SetFlag == 1
COND_UnsetFlag == 2

\* impl From<OpcodeRegister8> for Register8
Register8From(r) ==
    IF r = OR8_HL THEN R8_F
    ELSE IF r = OR8_A THEN R8_A
    ELSE r

\* impl From<OpcodeIndirectRegister16> for Register16
Register16FromIndirect(r) == IF r \in {0, 1} THEN r ELSE R16_HL

\* An instruction descriptor (enum Opcode): the variant and its operands.
\* x, y are 0 where the variant has fewer operands; a JumpCondition is
\* x = its kind and y = its flag.
Op(name, x, y) == [op |-> name, x |-> x, y |-> y]

\* A panic of the decoder in place of a descriptor: `panic!` returns nothing.
DecodePanic(message) == [panic |-> message]

\* Whether the decoder returned: the value is a descriptor.
IsDescriptor(o) == "op" \in DOMAIN o

\* A load block whose fields are taken the other way round.
DecodeLoadBlockSwapped(value) ==
    Op("LoadR8", BitAnd(value, \h07), BitAnd(value, \h38) \div 8)

\* 0x40 ..= 0x7F: LoadR8(from((value & 0x38) >> 3), from(value & 0x07))
DecodeLoadBlock(value) ==
    Op("LoadR8", BitAnd(value, \h38) \div 8, BitAnd(value, \h07))

\* An ALU block that takes the operation from two bits of the byte.
DecodeMathBlockTwoBits(value) ==
    Op("MathR8", BitAnd(value, \h18) \div 8, BitAnd(value, \h07))

\* 0x80 ..= 0xBF: MathR8(from((value & 0x38) >> 3), from(value & 0x07))
DecodeMathBlock(value) ==
    Op("MathR8", BitAnd(value, \h38) \div 8, BitAnd(value, \h07))

\* A prefix byte that decodes to an instruction without effect.
DecodePrefixIgnored == Op("Noop", 0, 0)

\* 0xCB => panic!("Incomplete 8-bit Opcode: `$CB`")
DecodePrefix == DecodePanic("Incomplete 8-bit Opcode")

\* The inner match of the decoder for high = 0x0 ..= 0x3.
DecodeLowPage(value, high, low) ==
    CASE low = \h1 -> Op("LoadImm16", high, 0)
      [] low = \h2 -> Op("LoadIndR16", high, DIR_Memory)
      [] low = \h3 -> Op("IncR16", high, 0)
      [] low = \h4 -> Op("IncR8", high * 2, 0)
      [] low = \h5 -> Op("DecR8", high * 2, 0)
      [] low = \h6 -> Op("LoadImm8", high * 2, 0)
      [] low = \h9 -> Op("AddR16", high, 0)
      [] low = \hA -> Op("LoadIndR16", high, DIR_Accumulator)
      [] low = \hB -> Op("DecR16", high, 0)
      [] low = \hC -> Op("IncR8", high * 2 + 1, 0)
      [] low = \hD -> Op("DecR8", high * 2 + 1, 0)
      [] low = \hE -> Op("LoadImm8", high * 2 + 1, 0)
      [] OTHER -> DecodePanic("Uncaught Opcode")

\* The inner match of the decoder for high = 0xC ..= 0xF.
DecodeHighPage(value, high, low) ==
    CASE low = \h1 -> Op("PopR16", high % 4, 0)
      [] low = \h5 -> Op("PushR16", high % 4, 0)
      [] low = \h6 -> Op("MathImm8", (high % 4) * 2, 0)
      [] low = \h7 -> Op("Restart", (high % 4) * 16, 0)
      [] low = \hE -> Op("MathImm8", (high % 4) * 2 + 1, 0)
      [] low = \hF -> Op("Restart", (high % 4) * 16 + 8, 0)
      [] OTHER -> DecodePanic("Uncaught Opcode")

(* impl From<u8> for Opcode: the descriptor of an opcode byte. The arms are *)
(* those of the match: the exact bytes and the two dense blocks, which do  *)
(* not overlap, and for every other byte the nibble decomposition.         *)
decode(value) ==
    LET low == value % 16
        high == value \div 16
    IN CASE value = \h00 -> Op("Noop", 0, 0)
         [] value = \h07 -> Op("RotateLeftCircularAccumulator", 0, 0)
         [] value = \h08 -> Op("LoadIndImm16SP", 0, 0)
         [] value = \h0F -> Op("RotateRightCircularAccumulator", 0, 0)
         [] value = \h10 -> Op("Stop", 0, 0)
         [] value = \h17 -> Op("RotateLeftAccumulator", 0, 0)
         [] value = \h1F -> Op("RotateRightAccumulator", 0, 0)
         [] value = \h20 -> Op("JumpOffImm8", COND_UnsetFlag, FlagZero)
         [] value = \h27 -> Op("DecimalAdjustAccumulator", 0, 0)
         [] value = \h2F -> Op("ComplementAccumulator", 0, 0)
         [] value = \h30 -> Op("JumpOffImm8", COND_UnsetFlag, FlagCarry)
         [] value = \h37 -> Op("SetCarryFlag", 0, 0)
         [] value = \h3F -> Op("ComplementCarryFlag", 0, 0)
         [] value >= \h40 /\ value <= \h7F -> DecodeLoadBlock(value)
         [] value >= \h80 /\ value <= \hBF -> DecodeMathBlock(value)
         [] value = \hC0 -> Op("Return", COND_UnsetFlag, FlagZero)
         [] value = \hC2 -> Op("JumpImm16", COND_UnsetFlag, FlagZero)
         [] value = \hC3 -> Op("JumpImm16", COND_Always, 0)
         [] value = \hC4 -> Op("CallImm16", COND_UnsetFlag, FlagZero)
         [] value = \hC8 -> Op("Return", COND_SetFlag, FlagZero)
         [] value = \hC9 -> Op("Return", COND_Always, 0)
         [] value = \hCA -> Op("JumpImm16", COND_SetFlag, FlagZero)
         [] value = \hCB -> DecodePrefix
         [] value = \hCC -> Op("CallImm16", COND_SetFlag, FlagZero)
         [] value = \hCD -> Op("CallImm16", COND_Always, 0)
         [] value = \hD0 -> Op("Return", COND_UnsetFlag, FlagCarry)
         [] value = \hD2 -> Op("JumpImm16", COND_UnsetFlag, FlagCarry)
         [] value = \hD4 -> Op("CallImm16", COND_UnsetFlag, FlagCarry)
         [] value = \hD8 -> Op("Return", COND_SetFlag, FlagCarry)
         [] value = \hD9 -> Op("ReturnInterupt", 0, 0)
         [] value = \hDA -> Op("JumpImm16", COND_SetFlag, FlagCarry)
         [] value = \hDC -> Op("CallImm16", COND_SetFlag, FlagCarry)
         [] value = \hE0 -> Op("LoadIndOffImm8", DIR_Memory, 0)
         [] value = \hE2 -> Op("LoadIndOffRegC", DIR_Memory, 0)
         [] value = \hE8 -> Op("AddSPImm8", 0, 0)
         [] value = \hE9 -> Op("JumpHL", 0, 0)
         [] value = \hEA -> Op("LoadIndImm16", DIR_Memory, 0)
         [] value = \hF0 -> Op("LoadIndOffImm8", DIR_Accumulator, 0)
         [] value = \hF2 -> Op("LoadIndOffRegC", DIR_Accumulator, 0)
         [] value = \hF3 -> Op("DisableInterrupts", 0, 0)
         [] value = \hF8 -> Op("LoadHLOffSp", 0, 0)
         [] value = \hF9 -> Op("LoadSPHL", 0, 0)
         [] value = \hFA -> Op("LoadIndImm16", DIR_Accumulator, 0)
         [] value = \hFB -> Op("EnableInterrupts", 0, 0)
         [] OTHER -> IF high <= \h3 THEN DecodeLowPage(value, high, low)
                     ELSE DecodeHighPage(value, high, low)

\* Whether a JumpCondition holds of the flags f.
ConditionHolds(f, kind, flag) ==
    CASE kind = COND_Always -> TRUE
      [] kind = COND_SetFlag -> is_set(f, flag)
      [] OTHER -> ~is_set(f, flag)

\* ---------------------------------------------------------- engine helpers

AddCycles(g0, n) ==
    Bind(g0, LAMBDA g :
    IF Faulted(g) THEN g ELSE [g EXCEPT !.cycles = @ + n])

\* Gba::fetch_byte: the byte at pc, and the machine after it (pc += 1).
FetchedByte(g) == get_u8(g, RegPC(g))

fetch_byte(g0) ==
    Bind(g0, LAMBDA g :
    LET pc == RegPC(g)
        g1 == Arith(Probe(g, pc), pc + 1, 65535)
    IN SetField16(g1, "pc", WrapU16(pc + 1)))

\* Gba::fetch_word: the word at pc, and the machine after it (pc += 2).
FetchedWord(g) == get_u16(g, RegPC(g))

fetch_word(g0) ==
    Bind(g0, LAMBDA g :
    LET pc == RegPC(g)
        g1 == Arith(Probe16(g, pc), pc + 2, 65535)
    IN SetField16(g1, "pc", WrapU16(pc + 2)))

\* Gba::fetch_register_8: the operand value and the machine after the read.
FetchedRegister8(g, reg) ==
    IF reg = OR8_HL THEN get_u8(g, get_r16(g, R16_HL))
    ELSE get_r8(g, Register8From(reg))

fetch_register_8(g0, reg) ==
    Bind(g0, LAMBDA g :
    IF reg = OR8_HL THEN AddCycles(Probe(g, get_r16(g, R16_HL)), 1)
    ELSE g)

\* push without `sp -= 2`: the word is stored at sp.
push_in_place(g0, val) ==
    Bind(g0, LAMBDA g : set_u16(g, RegSP(g), val))

\* Gba::push: sp -= 2, then the word at the new sp. The caller adds the 2
\* cycles it returns.
push(g0, val) ==
    Bind(g0, LAMBDA g :
    LET sp == RegSP(g)
        g1 == SetField16(Arith(g, sp - 2, 65535), "sp", WrapU16(sp - 2))
    IN set_u16(g1, WrapU16(sp - 2), val))

\* Gba::jump: pc = addr if the condition holds; 1 cycle if taken, else 0.
jump(g0, addr, kind, flag) ==
    Bind(g0, LAMBDA g :
    IF ConditionHolds(RegF(g), kind, flag)
    THEN AddCycles(SetField16(g, "pc", addr), 1)
    ELSE g)

\* call without its match on the condition: always taken.
call_always(g0, addr, kind, flag) ==
    Bind(g0, LAMBDA g :
    AddCycles(SetField16(push(g, RegPC(g)), "pc", addr), 3))

\* Gba::call: push pc and jump if the condition holds; 2 + 1 cycles if
\* taken, else 0.
call(g0, addr, kind, flag) ==
    Bind(g0, LAMBDA g :
    IF ConditionHolds(RegF(g), kind, flag)
    THEN AddCycles(SetField16(push(g, RegPC(g)), "pc", addr), 3)
    ELSE g)

\* self.cpu.registers.f |= m / &= m / ^= m
FlagsOr(g0, m) ==
    Bind(g0, LAMBDA g :
    SetField8(g, "f", BitOr(RegF(g), m)))
FlagsAnd(g0, m) ==
    Bind(g0, LAMBDA g :
    SetField8(g, "f", BitAnd(RegF(g), m)))
FlagsXor(g0, m) ==
    Bind(g0, LAMBDA g :
    SetField8(g, "f", BitXor(RegF(g), m)))
\* if cond { f |= flag } else { f &= !flag }
FlagsPut(g0, cond, flag) ==
    Bind(g0, LAMBDA g :
    IF cond THEN FlagsOr(g, flag) ELSE FlagsAnd(g, Not8(flag)))

CarryIn(g) == IF is_set(RegF(g), FlagCarry) THEN 1 ELSE 0


\* ------------------------------------------------------------ 8-bit ALU
\* The bodies of MathR8 / MathImm8 per MathOp, on the operand value src.

\* Add without its half-carry test: Half-Carry is left as it was.
AluAddKeepsHalfCarry(g0, src) ==
    Bind(g0, LAMBDA g :
    LET a == RegA(g)
        val == WrapU8(a + src)
        g1 == FlagsAnd(g, Not8(FlagSubtract))
        g2 == FlagsPut(g1, a + src > 255, FlagCarry)
        g3 == FlagsPut(g2, val = 0, FlagZero)
    IN SetField8(g3, "a", val))

AluAdd(g0, src) ==
    Bind(g0, LAMBDA g :
    LET a == RegA(g)
        val == WrapU8(a + src)
        over == a + src > 255
        g1 == FlagsAnd(g, Not8(FlagSubtract))
        g2 == FlagsPut(g1, over, FlagCarry)
        g3 == FlagsPut(g2, val = 0, FlagZero)
        g4 == FlagsPut(g3, BitAnd(a, \h0F) + BitAnd(src, \h0F) = \h10,
                       FlagHalfCarry)
    IN SetField8(g4, "a", val))

\* MathR8 Adc: src + carry is a checked u8 addition.
AluAdcR8(g0, src) ==
    Bind(g0, LAMBDA g :
    LET a == RegA(g)
        gc == Arith(g, src + CarryIn(g), 255)
        rhs == WrapU8(src + CarryIn(g))
        val == WrapU8(a + rhs)
        over == a + rhs > 255
        g1 == FlagsAnd(gc, Not8(FlagSubtract))
        g2 == FlagsPut(g1, over, FlagCarry)
        g3 == FlagsPut(g2, val = 0, FlagZero)
        g4 == FlagsPut(g3, BitAnd(a, \h0F) + BitAnd(src, \h0F) = \h10,
                       FlagHalfCarry)
    IN SetField8(g4, "a", val))

\* MathImm8 Adc: the half-carry test adds the carry flag, read before the
\* Carry update.
AluAdcImm(g0, src) ==
    Bind(g0, LAMBDA g :
    LET a == RegA(g)
        gc == Arith(g, src + CarryIn(g), 255)
        rhs == WrapU8(src + CarryIn(g))
        val == WrapU8(a + rhs)
        over == a + rhs > 255
        g1 == FlagsAnd(gc, Not8(FlagSubtract))
        g2 == FlagsPut(g1, val = 0, FlagZero)
        g3 == FlagsPut(g2, BitAnd(a, \h0F) + BitAnd(src, \h0F) + CarryIn(g2)
                             = \h10, FlagHalfCarry)
        g4 == FlagsPut(g3, over, FlagCarry)
    IN SetField8(g4, "a", val))

\* The half-carry test of the subtractions: (a & 0x0F) - (src & 0x0F) is a
\* checked u8 subtraction, compared with 0x10.
SubHalfCarry(g0, a, src) ==
    Bind(g0, LAMBDA g :
    LET d == BitAnd(a, \h0F) - BitAnd(src, \h0F)
    IN FlagsPut(Arith(g, d, 255), WrapU8(d) = \h10, FlagHalfCarry))

\* Sub with the Subtract flag cleared, as the additions leave it.
AluSubClearsSubtract(g0, src) ==
    Bind(g0, LAMBDA g :
    LET a == RegA(g)
        val == WrapU8(a - src)
        g1 == FlagsAnd(g, Not8(FlagSubtract))
        g2 == FlagsPut(g1, a < src, FlagCarry)
        g3 == FlagsPut(g2, val = 0, FlagZero)
        g4 == SubHalfCarry(g3, a, src)
    IN SetField8(g4, "a", val))

AluSub(g0, src) ==
    Bind(g0, LAMBDA g :
    LET a == RegA(g)
        val == WrapU8(a - src)
        over == a < src
        g1 == FlagsOr(g, FlagSubtract)
        g2 == FlagsPut(g1, over, FlagCarry)
        g3 == FlagsPut(g2, val = 0, FlagZero)
        g4 == SubHalfCarry(g3, a, src)
    IN SetField8(g4, "a", val))

\* MathR8 Sbc: src - carry is a checked u8 subtraction.
AluSbcR8(g0, src) ==
    Bind(g0, LAMBDA g :
    LET a == RegA(g)
        gc == Arith(g, src - CarryIn(g), 255)
        rhs == WrapU8(src - CarryIn(g))
        val == WrapU8(a - rhs)
        over == a < rhs
        g1 == FlagsOr(gc, FlagSubtract)
        g2 == FlagsPut(g1, over, FlagCarry)
        g3 == FlagsPut(g2, val = 0, FlagZero)
        g4 == SubHalfCarry(g3, a, src)
    IN SetField8(g4, "a", val))

\* MathImm8 Sbc: the half-carry test also subtracts the carry flag, read
\* after the Carry update.
AluSbcImm(g0, src) ==
    Bind(g0, LAMBDA g :
    LET a == RegA(g)
        gc == Arith(g, src - CarryIn(g), 255)
        rhs == WrapU8(src - CarryIn(g))
        val == WrapU8(a - rhs)
        over == a < rhs
        g1 == FlagsOr(gc, FlagSubtract)
        g2 == FlagsPut(g1, over, FlagCarry)
        g3 == FlagsPut(g2, val = 0, FlagZero)
        d1 == BitAnd(a, \h0F) - BitAnd(src, \h0F)
        d2 == WrapU8(d1) - CarryIn(g3)
        g4 == Arith(Arith(g3, d1, 255), d2, 255)
        g5 == FlagsPut(g4, WrapU8(d2) = \h10, FlagHalfCarry)
    IN SetField8(g5, "a", val))

\* Cp that stores the difference into A, as Sub does.
AluCpStores(g0, src) ==
    Bind(g0, LAMBDA g :
    LET a == RegA(g)
        val == WrapU8(a - src)
        g1 == FlagsOr(g, FlagSubtract)
        g2 == FlagsPut(g1, a < src, FlagCarry)
        g3 == FlagsPut(g2, val = 0, FlagZero)
    IN SetField8(SubHalfCarry(g3, a, src), "a", val))

AluCp(g0, src) ==
    Bind(g0, LAMBDA g :
    LET a == RegA(g)
        val == WrapU8(a - src)
        over == a < src
        g1 == FlagsOr(g, FlagSubtract)
        g2 == FlagsPut(g1, over, FlagCarry)
        g3 == FlagsPut(g2, val = 0, FlagZero)
    IN SubHalfCarry(g3, a, src))

\* And with the flags of Or and Xor: Half-Carry cleared.
AluAndClearsHalfCarry(g0, src) ==
    Bind(g0, LAMBDA g :
    LET val == BitAnd(RegA(g), src)
        g1 == SetField8(g, "a", val)
        g2 == FlagsAnd(g1, Not8(BitOr(BitOr(FlagSubtract, FlagCarry),
                                      FlagHalfCarry)))
    IN FlagsPut(g2, val = 0, FlagZero))

AluAnd(g0, src) ==
    Bind(g0, LAMBDA g :
    LET val == BitAnd(RegA(g), src)
        g1 == SetField8(g, "a", val)
        g2 == FlagsAnd(g1, Not8(BitOr(FlagSubtract, FlagCarry)))
        g3 == FlagsOr(g2, FlagHalfCarry)
    IN FlagsPut(g3, val = 0, FlagZero))

AluXor(g0, src) ==
    Bind(g0, LAMBDA g :
    LET val == BitXor(RegA(g), src)
        g1 == SetField8(g, "a", val)
        g2 == FlagsAnd(g1, Not8(BitOr(BitOr(FlagSubtract, FlagCarry),
                                      FlagHalfCarry)))
    IN FlagsPut(g2, val = 0, FlagZero))

AluOr(g0, src) ==
    Bind(g0, LAMBDA g :
    LET val == BitOr(RegA(g), src)
        g1 == SetField8(g, "a", val)
        g2 == FlagsAnd(g1, Not8(BitOr(BitOr(FlagSubtract, FlagCarry),
                                      FlagHalfCarry)))
    IN FlagsPut(g2, val = 0, FlagZero))

\* MathR8(op, src)
ExecMathR8(g0, op, reg) ==
    Bind(g0, LAMBDA g :
    LET src == FetchedRegister8(g, reg)
        g1 == fetch_register_8(g, reg)
    IN CASE op = 0 -> AluAdd(g1, src)
         [] op = 1 -> AluAdcR8(g1, src)
         [] op = 2 -> AluSub(g1, src)
         [] op = 3 -> AluSbcR8(g1, src)
         [] op = 4 -> AluAnd(g1, src)
         [] op = 5 -> AluXor(g1, src)
         [] op = 6 -> AluOr(g1, src)
         [] OTHER -> AluCp(g1, src))

\* MathImm8(op): every arm fetches its operand byte and adds its cycle.
ExecMathImm8(g0, op) ==
    Bind(g0, LAMBDA g :
    LET src == FetchedByte(g)
        g1 == AddCycles(fetch_byte(g), 1)
    IN CASE op = 0 -> AluAdd(g1, src)
         [] op = 1 -> AluAdcImm(g1, src)
         [] op = 2 -> AluSub(g1, src)
         [] op = 3 -> AluSbcImm(g1, src)
         [] op = 4 -> AluAnd(g1, src)
         [] op = 5 -> AluXor(g1, src)
         [] op = 6 -> AluOr(g1, src)
         [] OTHER -> AluCp(g1, src))


\* ----------------------------------------------------------- 8-bit loads

\* LoadR8(dst, src)
ExecLoadR8(g0, dst, src) ==
    Bind(g0, LAMBDA g :
    LET val == FetchedRegister8(g, src)
        g1 == IF src = OR8_HL
              THEN Probe(AddCycles(g, 1), get_r16(g, R16_HL))
              ELSE g
    IN IF dst = OR8_HL
       THEN set_u8(AddCycles(g1, 1), get_r16(g1, R16_HL), val)
       ELSE set_r8(g1, Register8From(dst), val))

\* LoadImm8(dst)
ExecLoadImm8(g0, dst) ==
    Bind(g0, LAMBDA g :
    LET val == FetchedByte(g)
        g1 == fetch_byte(g)
        g2 == IF dst = OR8_HL
              THEN set_u8(AddCycles(g1, 1), get_r16(g1, R16_HL), val)
              ELSE set_r8(g1, Register8From(dst), val)
    IN AddCycles(g2, 1))

\* if let LoadDirection::Memory = direction { mem[addr] = a } else { a = mem[addr] }
LoadAccumulator(g0, addr, direction) ==
    Bind(g0, LAMBDA g :
    IF direction = DIR_Memory THEN set_u8(g, addr, RegA(g))
    ELSE SetField8(Probe(g, addr), "a", get_u8(g, addr)))

\* LoadIndR16(src, direction)
ExecLoadIndR16(g0, src, direction) ==
    Bind(g0, LAMBDA g :
    LET g1 == AddCycles(g, 2)
        hl == get_r16(g1, R16_HL)
        addr == IF src \in {IND_HLInc, IND_HLDec} THEN hl
                ELSE get_r16(g1, Register16FromIndirect(src))
        g2 == CASE src = IND_HLInc ->
                     set_r16(Arith(g1, hl + 1, 65535), R16_HL, WrapU16(hl + 1))
                [] src = IND_HLDec ->
                     set_r16(Arith(g1, hl - 1, 65535), R16_HL, WrapU16(hl - 1))
                [] OTHER -> g1
    IN LoadAccumulator(g2, addr, direction))

\* LoadIndOffImm8(direction)
ExecLoadIndOffImm8(g0, direction) ==
    Bind(g0, LAMBDA g :
    LET off == FetchedByte(g)
        g1 == AddCycles(fetch_byte(g), 2)
    IN LoadAccumulator(g1, \hFF00 + off, direction))

\* LoadIndOffRegC(direction)
ExecLoadIndOffRegC(g0, direction) ==
    Bind(g0, LAMBDA g :
    LET g1 == AddCycles(g, 1)
    IN LoadAccumulator(g1, \hFF00 + Field8(g1, "c"), direction))

\* LoadIndImm16(direction)
ExecLoadIndImm16(g0, direction) ==
    Bind(g0, LAMBDA g :
    LET addr == FetchedWord(g)
        g1 == AddCycles(fetch_word(g), 3)
    IN LoadAccumulator(g1, addr, direction))

\* ---------------------------------------------------------- 16-bit loads

\* LoadImm16(dst)
ExecLoadImm16(g0, dst) ==
    Bind(g0, LAMBDA g :
    LET val == FetchedWord(g)
        g1 == AddCycles(fetch_word(g), 2)
    IN set_r16(g1, dst, val))

\* LoadIndImm16SP
ExecLoadIndImm16SP(g0) ==
    Bind(g0, LAMBDA g :
    LET addr == FetchedWord(g)
        g1 == AddCycles(fetch_word(g), 4)
    IN set_u16(g1, addr, RegSP(g1)))

\* LoadSPHL
ExecLoadSPHL(g0) ==
    Bind(g0, LAMBDA g :
    LET g1 == AddCycles(g, 1)
    IN SetField16(g1, "sp", get_r16(g1, R16_HL)))

\* PushR16(src)
ExecPushR16(g0, src) ==
    Bind(g0, LAMBDA g :
    AddCycles(push(g, get_r16(g, src)), 3))

\* PopR16(dst)
ExecPopR16(g0, dst) ==
    Bind(g0, LAMBDA g :
    LET g1 == AddCycles(g, 2)
        sp == RegSP(g1)
        val == get_u16(g1, sp)
        g2 == Arith(Probe16(g1, sp), sp + 2, 65535)
        g3 == SetField16(g2, "sp", WrapU16(sp + 2))
    IN set_r16(g3, dst, val))

\* LoadHLOffSp: the word at sp + off is read and dropped; HL is not written.
ExecLoadHLOffSp(g0) ==
    Bind(g0, LAMBDA g :
    LET off == FetchedByte(g)
        g1 == AddCycles(fetch_byte(g), 2)
        sp == RegSP(g1)
        addr == WrapU16(sp + off)
        over == sp + off > 65535
        g2 == Probe16(g1, addr)
        g3 == FlagsAnd(g2, Not8(BitOr(FlagZero, FlagSubtract)))
        g4 == IF over THEN FlagsOr(g3, FlagCarry) ELSE FlagsAnd(g3, FlagCarry)
    IN FlagsPut(g4, BitAnd(BitAnd(sp, \h000F) + BitAnd(off, \h0F), \h10) # 0,
                FlagHalfCarry))


\* ------------------------------------------------- 8-bit inc / dec / misc

\* The shared opening of IncR8 and DecR8: both read the operand and write
\* back val + 1 (a checked u8 addition); (HL) costs 2 more cycles.
IncDecStore(g0, reg) ==
    Bind(g0, LAMBDA g :
    LET val == FetchedRegister8(g, reg)
    IN IF reg = OR8_HL
       THEN LET addr == get_r16(g, R16_HL)
                g1 == Arith(Probe(g, addr), val + 1, 255)
            IN AddCycles(set_u8(g1, addr, WrapU8(val + 1)), 2)
       ELSE set_r8(Arith(g, val + 1, 255), Register8From(reg), WrapU8(val + 1)))

\* IncR8(reg): the flags are computed from the value before the increment.
ExecIncR8(g0, reg) ==
    Bind(g0, LAMBDA g :
    LET val == FetchedRegister8(g, reg)
        g1 == IncDecStore(g, reg)
        g2 == FlagsAnd(g1, Not8(FlagSubtract))
        g3 == FlagsPut(g2, val = 0, FlagZero)
    IN FlagsPut(g3, BitAnd(val, \h08) # 0, FlagHalfCarry))

\* DecR8 with the Subtract flag set instead of cleared.
ExecDecR8SetsSubtract(g0, reg) ==
    Bind(g0, LAMBDA g :
    LET val == FetchedRegister8(g, reg)
        g1 == IncDecStore(g, reg)
        g2 == FlagsOr(g1, FlagSubtract)
        g3 == FlagsPut(g2, val = 0, FlagZero)
        d == BitAnd(val, \h0F) - 1
    IN FlagsPut(Arith(g3, d, 255), WrapU8(d) # 0, FlagHalfCarry))

\* DecR8(reg): stores val + 1 as IncR8 does; (val & 0x0F) - 1 is a checked
\* u8 subtraction.
ExecDecR8(g0, reg) ==
    Bind(g0, LAMBDA g :
    LET val == FetchedRegister8(g, reg)
        g1 == IncDecStore(g, reg)
        g2 == FlagsAnd(g1, Not8(FlagSubtract))
        g3 == FlagsPut(g2, val = 0, FlagZero)
        d == BitAnd(val, \h0F) - 1
    IN FlagsPut(Arith(g3, d, 255), WrapU8(d) # 0, FlagHalfCarry))

\* ComplementCarryFlag
ExecComplementCarryFlag(g0) ==
    Bind(g0, LAMBDA g :
    FlagsAnd(FlagsXor(g, FlagCarry), Not8(BitOr(FlagSubtract, FlagHalfCarry))))

\* SetCarryFlag
ExecSetCarryFlag(g0) ==
    Bind(g0, LAMBDA g :
    FlagsAnd(FlagsOr(g, FlagCarry), Not8(BitOr(FlagSubtract, FlagHalfCarry))))

\* self.cpu.registers.a += n / -= n (checked), when cond holds
AdjustA(g0, cond, n) ==
    Bind(g0, LAMBDA g :
    IF cond
    THEN SetField8(Arith(g, RegA(g) + n, 255), "a", WrapU8(RegA(g) + n))
    ELSE g)

\* DecimalAdjustAccumulator
ExecDecimalAdjustAccumulator(g0) ==
    Bind(g0, LAMBDA g :
    LET f == RegF(g)
        g3 == IF is_set(f, FlagSubtract)
              THEN LET c1 == is_set(f, FlagCarry) \/ RegA(g) > \h99
                       g1 == AdjustA(g, c1, \h60)
                       g2 == IF c1 THEN FlagsOr(g1, FlagCarry) ELSE g1
                   IN AdjustA(g2, is_set(RegF(g2), FlagHalfCarry)
                                    \/ BitAnd(RegA(g2), \h0F) > \h09, \h06)
              ELSE LET g1 == AdjustA(g, is_set(f, FlagCarry), 0 - \h60)
                   IN AdjustA(g1, is_set(f, FlagHalfCarry), 0 - \h06)
        g4 == FlagsPut(g3, RegA(g3) = 0, FlagZero)
    IN FlagsAnd(g4, Not8(FlagHalfCarry)))

\* ComplementAccumulator
ExecComplementAccumulator(g0) ==
    Bind(g0, LAMBDA g :
    FlagsOr(SetField8(g, "a", BitXor(RegA(g), \hFF)),
            BitOr(FlagSubtract, FlagHalfCarry)))

\* ------------------------------------------------------ 16-bit arithmetic

\* IncR16(src) / DecR16(src): as_u16_slice_mut(..)[src] += 1 / -= 1
ExecIncR16(g0, src) ==
    Bind(g0, LAMBDA g :
    LET g1 == AddCycles(g, 1)
        v == get_r16(g1, src) + 1
    IN set_r16(Arith(g1, v, 65535), src, WrapU16(v)))

ExecDecR16(g0, src) ==
    Bind(g0, LAMBDA g :
    LET g1 == AddCycles(g, 1)
        v == get_r16(g1, src) - 1
    IN set_r16(Arith(g1, v, 65535), src, WrapU16(v)))

\* AddR16(src)
ExecAddR16(g0, src) ==
    Bind(g0, LAMBDA g :
    LET hl == get_r16(g, R16_HL)
        rr == get_r16(g, src)
        g1 == set_r16(AddCycles(g, 1), R16_HL, WrapU16(hl + rr))
        g2 == FlagsAnd(g1, Not8(FlagSubtract))
        g3 == FlagsPut(g2, hl + rr > 65535, FlagCarry)
    IN FlagsPut(g3, BitAnd(BitAnd(hl, \h0F00) + BitAnd(rr, \h0F00), \h1000) # 0,
                FlagHalfCarry))

\* AddSPImm8: the fetch's cycle is dropped; -(off as i8) is a checked i8
\* negation (off = 0x80 overflows: a release build leaves -128, which as
\* u16 is 0xFF80); the overflow bit goes to Zero.
ExecAddSPImm8(g0) ==
    Bind(g0, LAMBDA g :
    LET off == FetchedByte(g)
        g1 == fetch_byte(g)
        sp == RegSP(g1)
        neg == IF off = \h80 THEN \hFF80 ELSE 256 - off
        g2 == IF off = \h80 /\ g1.build.overflow_checks
              THEN Panic(g1, "overflow") ELSE g1
        new == IF AsI8(off) >= 0 THEN WrapU16(sp + off) ELSE WrapU16(sp - neg)
        over == IF AsI8(off) >= 0 THEN sp + off > 65535 ELSE sp < neg
        g3 == SetField16(g2, "sp", new)
        g4 == FlagsAnd(g3, Not8(BitOr(FlagZero, FlagSubtract)))
        g5 == FlagsPut(g4, over, FlagZero)
    IN FlagsPut(g5, BitAnd(new, \h000F) + BitAnd(off, \h000F) = \h0010,
                FlagHalfCarry))

\* ------------------------------------------------------------- rotates
(* u8::overflowing_shl(1) / overflowing_shr(1): the shifted value, and     *)
(* whether the shift amount is at least the bit width (never, for 1); the  *)
(* bit shifted out is not reported.                                        *)
OverflowingShl1(a) == <<WrapU8(2 * a), FALSE>>
OverflowingShr1(a) == <<a \div 2, FALSE>>

RotateFlags(c) == IF c THEN FlagCarry ELSE 0

ExecRotateLeftCircularAccumulator(g0) ==
    Bind(g0, LAMBDA g :
    LET r == OverflowingShl1(RegA(g))
        g1 == SetField8(g, "f", RotateFlags(r[2]))
    IN SetField8(g1, "a", BitOr(r[1], IF r[2] THEN 1 ELSE 0)))

ExecRotateLeftAccumulator(g0) ==
    Bind(g0, LAMBDA g :
    LET r == OverflowingShl1(RegA(g))
        old_c == CarryIn(g)
        g1 == SetField8(g, "f", RotateFlags(r[2]))
    IN SetField8(g1, "a", BitOr(r[1], old_c)))

ExecRotateRightCircularAccumulator(g0) ==
    Bind(g0, LAMBDA g :
    LET r == OverflowingShr1(RegA(g))
        g1 == SetField8(g, "f", RotateFlags(r[2]))
    IN SetField8(g1, "a", BitOr(r[1], IF r[2] THEN \h80 ELSE 0)))

ExecRotateRightAccumulator(g0) ==
    Bind(g0, LAMBDA g :
    LET r == OverflowingShr1(RegA(g))
        old_c == CarryIn(g)
        g1 == SetField8(g, "f", RotateFlags(r[2]))
    IN SetField8(g1, "a", BitOr(r[1], old_c * \h80)))


\* --------------------------------------------------------- control flow

\* JumpImm16(condition)
ExecJumpImm16(g0, kind, flag) ==
    Bind(g0, LAMBDA g :
    LET addr == FetchedWord(g)
        g1 == AddCycles(fetch_word(g), 2)
    IN jump(g1, addr, kind, flag))

\* JumpHL
ExecJumpHL(g0) ==
    Bind(g0, LAMBDA g :
    SetField16(g, "pc", get_r16(g, R16_HL)))

\* JumpOffImm8(condition): pc + (off as i8) as u16 is a checked u16
\* addition, computed whether or not the jump is taken.
ExecJumpOffImm8(g0, kind, flag) ==
    Bind(g0, LAMBDA g :
    LET off == FetchedByte(g)
        g1 == fetch_byte(g)
        t == RegPC(g1) + WrapU16(AsI8(off))
        g2 == AddCycles(Arith(g1, t, 65535), 1)
    IN jump(g2, WrapU16(t), kind, flag))

\* CallImm16(condition)
ExecCallImm16(g0, kind, flag) ==
    Bind(g0, LAMBDA g :
    LET addr == FetchedWord(g)
        g1 == AddCycles(fetch_word(g), 2)
    IN call(g1, addr, kind, flag))

\* Return(condition)
ExecReturn(g0, kind, flag) ==
    Bind(g0, LAMBDA g :
    IF ConditionHolds(RegF(g), kind, flag)
    THEN LET sp == RegSP(g)
             g1 == SetField16(Probe16(g, sp), "pc", get_u16(g, sp))
             g2 == SetField16(Arith(g1, sp + 2, 65535), "sp", WrapU16(sp + 2))
         IN AddCycles(g2, 4)
    ELSE AddCycles(g, 1))

\* A store to ime that is dropped.
SetImeDropped(g0, v) == Bind(g0, LAMBDA g : g)

SetIme(g0, v) ==
    Bind(g0, LAMBDA g :
    IF Faulted(g) THEN g ELSE [g EXCEPT !.ime = v])

\* ReturnInterupt: the word is read at pc.
ExecReturnInterupt(g0) ==
    Bind(g0, LAMBDA g :
    LET pc == RegPC(g)
        g1 == SetField16(Probe16(g, pc), "pc", get_u16(g, pc))
        sp == RegSP(g1)
        g2 == SetField16(Arith(g1, sp + 2, 65535), "sp", WrapU16(sp + 2))
    IN AddCycles(SetIme(g2, 1), 3))

\* Restart(vector)
ExecRestart(g0, vector) ==
    Bind(g0, LAMBDA g :
    SetField16(AddCycles(push(g, RegPC(g)), 3), "pc", vector))

(* Gba::execute as a function of the machine and the descriptor: the match *)
(* over the descriptor, entered with a cycle count of 1.                   *)
execute(g0, o) ==
    Bind([g0 EXCEPT !.cycles = 1], LAMBDA g :
    CASE o.op = "LoadR8" -> ExecLoadR8(g, o.x, o.y)
      [] o.op = "LoadImm8" -> ExecLoadImm8(g, o.x)
      [] o.op = "LoadIndR16" -> ExecLoadIndR16(g, o.x, o.y)
      [] o.op = "LoadIndOffImm8" -> ExecLoadIndOffImm8(g, o.x)
      [] o.op = "LoadIndOffRegC" -> ExecLoadIndOffRegC(g, o.x)
      [] o.op = "LoadIndImm16" -> ExecLoadIndImm16(g, o.x)
      [] o.op = "LoadImm16" -> ExecLoadImm16(g, o.x)
      [] o.op = "LoadIndImm16SP" -> ExecLoadIndImm16SP(g)
      [] o.op = "LoadSPHL" -> ExecLoadSPHL(g)
      [] o.op = "PushR16" -> ExecPushR16(g, o.x)
      [] o.op = "PopR16" -> ExecPopR16(g, o.x)
      [] o.op = "LoadHLOffSp" -> ExecLoadHLOffSp(g)
      [] o.op = "MathR8" -> ExecMathR8(g, o.x, o.y)
      [] o.op = "MathImm8" -> ExecMathImm8(g, o.x)
      [] o.op = "IncR8" -> ExecIncR8(g, o.x)
      [] o.op = "DecR8" -> ExecDecR8(g, o.x)
      [] o.op = "ComplementCarryFlag" -> ExecComplementCarryFlag(g)
      [] o.op = "SetCarryFlag" -> ExecSetCarryFlag(g)
      [] o.op = "DecimalAdjustAccumulator" -> ExecDecimalAdjustAccumulator(g)
      [] o.op = "ComplementAccumulator" -> ExecComplementAccumulator(g)
      [] o.op = "IncR16" -> ExecIncR16(g, o.x)
      [] o.op = "DecR16" -> ExecDecR16(g, o.x)
      [] o.op = "AddR16" -> ExecAddR16(g, o.x)
      [] o.op = "AddSPImm8" -> ExecAddSPImm8(g)
      [] o.op = "RotateLeftCircularAccumulator" -> ExecRotateLeftCircularAccumulator(g)
      [] o.op = "RotateLeftAccumulator" -> ExecRotateLeftAccumulator(g)
      [] o.op = "RotateRightCircularAccumulator" -> ExecRotateRightCircularAccumulator(g)
      [] o.op = "RotateRightAccumulator" -> ExecRotateRightAccumulator(g)
      [] o.op = "JumpImm16" -> ExecJumpImm16(g, o.x, o.y)
      [] o.op = "JumpHL" -> ExecJumpHL(g)
      [] o.op = "JumpOffImm8" -> ExecJumpOffImm8(g, o.x, o.y)
      [] o.op = "CallImm16" -> ExecCallImm16(g, o.x, o.y)
      [] o.op = "Return" -> ExecReturn(g, o.x, o.y)
      [] o.op = "ReturnInterupt" -> ExecReturnInterupt(g)
      [] o.op = "Restart" -> ExecRestart(g, o.x)
      [] o.op = "DisableInterrupts" -> SetIme(g, 0)
      [] o.op = "EnableInterrupts" -> SetIme(g, 1)
      [] o.op = "Noop" -> g
      [] OTHER -> Panic(g, "unsupported"))

(* One fetch-decode-execute step: the byte at pc is fetched (pc += 1) and  *)
(* decoded, and the descriptor is executed; the cycle count is the one     *)
(* execute returns. A panic of the fetch or of the decoder ends the        *)
(* process before execute is entered.                                     *)
step(g0) ==
    Bind(fetch_byte(g0), LAMBDA g :
    IF Faulted(g) THEN g
    ELSE IF ~IsDescriptor(decode(FetchedByte(g0))) THEN Panic(g, "decode")
    ELSE execute(g, decode(FetchedByte(g0))))

\* ------------------------------------------------------- the state machine
(* limit is the number of instructions the driver of this run has still to *)
(* execute; trace holds, per executed instruction, its descriptor and the  *)
(* machine before it. Neither is read by the program.                      *)

\* The machine the variables hold.
Machine ==
    [registers |-> registers, mem |-> mem, ime |-> ime, cart |-> cart,
     build |-> build, cycles |-> cycles, fault |-> fault]

\* An execute that counts on from the cycle count of the last instruction.
StartCountingOn == [Machine EXCEPT !.cycles = @ + 1]

\* Gba::execute starts every instruction with a cycle count of 1.
Start == [Machine EXCEPT !.cycles = 1]

\* One call of Gba::execute on the descriptor: result is the machine the
\* descriptor's match arm leaves. A panic ends the process: nothing executes
\* after it.
Running == fault = "none" /\ limit > 0

Step(opcode, result) ==
    /\ \E g \in {result} :
          /\ registers' = g.registers
          /\ mem' = g.mem
          /\ ime' = g.ime
          /\ cycles' = g.cycles
          /\ fault' = g.fault
          /\ cart' = g.cart
    /\ trace' = Append(trace, [opcode |-> opcode, before |-> Machine])
    /\ limit' = limit - 1
    /\ UNCHANGED build

\* The JumpConditions the decoder produces: Always, and Zero / Carry set or
\* unset.
JumpConditions ==
    {<<COND_Always, 0>>}
    \cup ({COND_SetFlag, COND_UnsetFlag} \X {FlagZero, FlagCarry})

\* The vectors of Restart: (high & 3) << 4, with or without 0x08.
RestartVectors == {8 * k : k \in 0 .. 7}

LoadR8 == \E dst \in OpcodeRegister8, src \in OpcodeRegister8 :
            Running /\ Step(Op("LoadR8", dst, src),
                 ExecLoadR8(Start, dst, src))
LoadImm8 == \E dst \in OpcodeRegister8 : Running /\ Step(Op("LoadImm8", dst, 0),
                 ExecLoadImm8(Start, dst))
LoadIndR16 == \E src \in OpcodeIndirectRegister16,
                 dir \in {DIR_Memory, DIR_Accumulator} :
                Running /\ Step(Op("LoadIndR16", src, dir),
                 ExecLoadIndR16(Start, src, dir))
LoadIndOffImm8 == \E dir \in {DIR_Memory, DIR_Accumulator} :
                    Running /\ Step(Op("LoadIndOffImm8", dir, 0),
                 ExecLoadIndOffImm8(Start, dir))
LoadIndOffRegC == \E dir \in {DIR_Memory, DIR_Accumulator} :
                    Running /\ Step(Op("LoadIndOffRegC", dir, 0),
                 ExecLoadIndOffRegC(Start, dir))
LoadIndImm16 == \E dir \in {DIR_Memory, DIR_Accumulator} :
                  Running /\ Step(Op("LoadIndImm16", dir, 0),
                 ExecLoadIndImm16(Start, dir))
LoadImm16 == \E dst \in OpcodeRegister16 : Running /\ Step(Op("LoadImm16", dst, 0),
                 ExecLoadImm16(Start, dst))
LoadIndImm16SP == Running /\ Step(Op("LoadIndImm16SP", 0, 0),
                 ExecLoadIndImm16SP(Start))
LoadSPHL == Running /\ Step(Op("LoadSPHL", 0, 0),
                 ExecLoadSPHL(Start))
PushR16 == \E src \in OpcodeRegister16 : Running /\ Step(Op("PushR16", src, 0),
                 ExecPushR16(Start, src))
PopR16 == \E dst \in OpcodeRegister16 : Running /\ Step(Op("PopR16", dst, 0),
                 ExecPopR16(Start, dst))
LoadHLOffSp == Running /\ Step(Op("LoadHLOffSp", 0, 0),
                 ExecLoadHLOffSp(Start))
MathR8 == \E op \in MathOp, src \in OpcodeRegister8 :
            Running /\ Step(Op("MathR8", op, src),
                 ExecMathR8(Start, op, src))
MathImm8 == \E op \in MathOp : Running /\ Step(Op("MathImm8", op, 0),
                 ExecMathImm8(Start, op))
IncR8 == \E reg \in OpcodeRegister8 : Running /\ Step(Op("IncR8", reg, 0),
                 ExecIncR8(Start, reg))
DecR8 == \E reg \in OpcodeRegister8 : Running /\ Step(Op("DecR8", reg, 0),
                 ExecDecR8(Start, reg))
ComplementCarryFlag == Running /\ Step(Op("ComplementCarryFlag", 0, 0),
                 ExecComplementCarryFlag(Start))
SetCarryFlag == Running /\ Step(Op("SetCarryFlag", 0, 0),
                 ExecSetCarryFlag(Start))
DecimalAdjustAccumulator == Running /\ Step(Op("DecimalAdjustAccumulator", 0, 0),
                 ExecDecimalAdjustAccumulator(Start))
ComplementAccumulator == Running /\ Step(Op("ComplementAccumulator", 0, 0),
                 ExecComplementAccumulator(Start))
IncR16 == \E src \in OpcodeRegister16 : Running /\ Step(Op("IncR16", src, 0),
                 ExecIncR16(Start, src))
DecR16 == \E src \in OpcodeRegister16 : Running /\ Step(Op("DecR16", src, 0),
                 ExecDecR16(Start, src))
AddR16 == \E src \in OpcodeRegister16 : Running /\ Step(Op("AddR16", src, 0),
                 ExecAddR16(Start, src))
AddSPImm8 == Running /\ Step(Op("AddSPImm8", 0, 0),
                 ExecAddSPImm8(Start))
RotateLeftCircularAccumulator == Running /\ Step(Op("RotateLeftCircularAccumulator", 0, 0),
                 ExecRotateLeftCircularAccumulator(Start))
RotateLeftAccumulator == Running /\ Step(Op("RotateLeftAccumulator", 0, 0),
                 ExecRotateLeftAccumulator(Start))
RotateRightCircularAccumulator == Running /\ Step(Op("RotateRightCircularAccumulator", 0, 0),
                 ExecRotateRightCircularAccumulator(Start))
RotateRightAccumulator == Running /\ Step(Op("RotateRightAccumulator", 0, 0),
                 ExecRotateRightAccumulator(Start))
JumpImm16 == \E c \in JumpConditions : Running /\ Step(Op("JumpImm16", c[1], c[2]),
                 ExecJumpImm16(Start, c[1], c[2]))
JumpHL == Running /\ Step(Op("JumpHL", 0, 0),
                 ExecJumpHL(Start))
JumpOffImm8 == \E c \in JumpConditions : Running /\ Step(Op("JumpOffImm8", c[1], c[2]),
                 ExecJumpOffImm8(Start, c[1], c[2]))
CallImm16 == \E c \in JumpConditions : Running /\ Step(Op("CallImm16", c[1], c[2]),
                 ExecCallImm16(Start, c[1], c[2]))
Return == \E c \in JumpConditions : Running /\ Step(Op("Return", c[1], c[2]),
                 ExecReturn(Start, c[1], c[2]))
ReturnInterupt == Running /\ Step(Op("ReturnInterupt", 0, 0),
                 ExecReturnInterupt(Start))
Restart == \E v \in RestartVectors : Running /\ Step(Op("Restart", v, 0),
                 ExecRestart(Start, v))
Halt == Running /\ Step(Op("Halt", 0, 0),
                 Panic(Start, "unsupported"))
Stop == Running /\ Step(Op("Stop", 0, 0),
                 Panic(Start, "unsupported"))
DisableInterrupts == Running /\ Step(Op("DisableInterrupts", 0, 0),
                 SetIme(Start, 0))
EnableInterrupts == Running /\ Step(Op("EnableInterrupts", 0, 0),
                 SetIme(Start, 1))
Noop == Running /\ Step(Op("Noop", 0, 0),
                 Start)

\* Any instruction.
Next ==
    \/ LoadR8 \/ LoadImm8 \/ LoadIndR16 \/ LoadIndOffImm8 \/ LoadIndOffRegC
    \/ LoadIndImm16 \/ LoadImm16 \/ LoadIndImm16SP \/ LoadSPHL \/ PushR16
    \/ PopR16 \/ LoadHLOffSp \/ MathR8 \/ MathImm8 \/ IncR8 \/ DecR8
    \/ ComplementCarryFlag \/ SetCarryFlag \/ DecimalAdjustAccumulator
    \/ ComplementAccumulator \/ IncR16 \/ DecR16 \/ AddR16 \/ AddSPImm8
    \/ RotateLeftCircularAccumulator \/ RotateLeftAccumulator
    \/ RotateRightCircularAccumulator \/ RotateRightAccumulator
    \/ JumpImm16 \/ JumpHL \/ JumpOffImm8 \/ CallImm16 \/ Return
    \/ ReturnInterupt \/ Restart \/ Halt \/ Stop \/ DisableInterrupts
    \/ EnableInterrupts \/ Noop

\* The cartridge images of the runs: the pattern a ROM repeats.
CartImages == {<<\h34, \h12, \hC0, \h80, \hFF, \h00, \h0F, \h01>>}

\* The register bytes with every field zero (Cpu::default()).
ZeroRegisters == [i \in 0 .. 11 |-> 0]
\* The RAM arrays of Mem::new: all zero.
ZeroMem == [ram |-> <<>>, sprite_oam |-> <<>>, io_ports |-> <<>>,
            ram_stack |-> <<>>]

\* Gba::new: the machine at power-on (the boot ROM is not executed).
PowerOn(b, c) ==
    [registers |-> ZeroRegisters, mem |-> ZeroMem, ime |-> 0, cart |-> c,
     build |-> b, cycles |-> 0, fault |-> "none"]

\* The run starts with the machine m and executes at most depth instructions.
StartAt(m, depth) ==
    /\ registers = m.registers
    /\ mem = m.mem
    /\ ime = m.ime
    /\ cart = m.cart
    /\ build = m.build
    /\ cycles = m.cycles
    /\ fault = m.fault
    /\ trace = <<>>
    /\ limit = depth

MaxSteps == 2

Init == \E b \in Builds, c \in CartImages : StartAt(PowerOn(b, c), MaxSteps)

\* Every instruction, from power-on.
Spec == Init /\ [][Next]_vars

(* A machine in the middle of a program: the pairs written through         *)
(* set_r16, then a, f, sp and pc stored through their fields, as the       *)
(* engine stores them.                                                     *)
Loaded(b, c, bc, de, hl, a, f, sp, pc) ==
    LET m1 == set_r16(set_r16(set_r16(PowerOn(b, c), R16_BC, bc), R16_DE, de),
                      R16_HL, hl)
        m2 == SetField8(SetField8(m1, "a", a), "f", f)
    IN SetField16(SetField16(m2, "sp", sp), "pc", pc)

\* Stack pointers with room below them: in work RAM and in the high RAM.
StackPointers == {\hD000, \hFFFE}
\* Flag bytes: Zero and Carry set and unset.
FlagBytes == {\h00, \h80, \h10, \h90}

\* --------------------------------------------------------- stack programs
StackDepth == 4

StackInit ==
    \E b \in Builds, c \in CartImages, sp \in StackPointers, f \in {\h00, \h90} :
        StartAt(Loaded(b, c, \h1234, \h5678, \h9ABC, \hDE, f, sp, \h0100),
                StackDepth)

StackNext == PushR16 \/ PopR16

\* Programs of PushR16 and PopR16.
StackSpec == StackInit /\ [][StackNext]_vars

\* ------------------------------------------------ call / return programs
CallDepth == 2

CallInit ==
    \E b \in Builds, c \in CartImages, sp \in StackPointers, f \in FlagBytes :
        StartAt(Loaded(b, c, \h1234, \h5678, \h9ABC, \hDE, f, sp, \h0100),
                CallDepth)

CallNext == CallImm16 \/ Return \/ Restart

\* Programs of CallImm16, Return and Restart.
CallSpec == CallInit /\ [][CallNext]_vars

\* ------------------------------------------------- register-file programs
(* The 16-bit view of the register file, written from outside the engine:  *)
(* Registers::set_r16 on any Register16, SP and PC included.                *)
PairValues == {\h0000, \h12EF, \hFFFF}

\* One call of Registers::set_r16(reg, value).
WriteR16 == \E reg \in Register16, value \in PairValues :
              Running /\ Step(Op("set_r16", reg, value),
                 set_r16(Machine, reg, value))

PairDepth == 2

PairInit ==
    \E b \in Builds, c \in CartImages :
        StartAt(Loaded(b, c, \h1234, \h5678, \h9ABC, \hDE, \h90, \hD000, \h0100),
                PairDepth)

PairNext == WriteR16

\* Programs of set_r16 calls.
PairSpec == PairInit /\ [][PairNext]_vars

\* ----------------------------------------------------------- ALU programs
(* MathR8 and MathImm8 on a machine whose accumulator, flags and operands  *)
(* are chosen: A at the ends of the byte range and of its low nibble, the  *)
(* flags all clear or all set, pc at a cartridge byte 0x00 or 0x01, (HL)   *)
(* in work RAM.                                                            *)
Accumulators == {\h00, \h0F, \hFF}
OperandAddresses == {5, 7}
AluDepth == 1

AluInit ==
    \E b \in Builds, c \in CartImages, a \in Accumulators, f \in {\h00, \hF0},
       pc \in OperandAddresses :
        StartAt(Loaded(b, c, \h0001, \h0FFF, \hC000, a, f, \hD000, pc), AluDepth)

AluNext == MathR8 \/ MathImm8

\* Programs of MathR8 and MathImm8.
AluSpec == AluInit /\ [][AluNext]_vars

\* ------------------------------------------------- 16-bit add programs
(* AddR16 on a machine whose HL and BC are chosen: HL with its low byte,   *)
(* its low 12 bits or all its bits set, BC with and without bits 8..11.    *)
AddendsHL == {\h00FF, \h0FFF, \hFFFF}
AddendsBC == {\h0001, \h0F01}
Add16Depth == 2

Add16Init ==
    \E b \in Builds, c \in CartImages, hl \in AddendsHL, bc \in AddendsBC,
       f \in {\h00, \hF0} :
        StartAt(Loaded(b, c, bc, \h1000, hl, \hDE, f, \hD000, \h0100), Add16Depth)

Add16Next == AddR16

\* Programs of AddR16.
Add16Spec == Add16Init /\ [][Add16Next]_vars
\* ------------------------------------------ increment / decrement programs
(* IncR8 and DecR8 on a machine whose registers hold the ends of the byte  *)
(* range and of the low nibble, with the flags all clear or all set.       *)
CounterPairs == {\h00FF, \h0F10}
IncDecDepth == 2

IncDecInit ==
    \E b \in Builds, c \in CartImages, bc \in CounterPairs, f \in {\h00, \hF0} :
        StartAt(Loaded(b, c, bc, \h0F01, \hC000, \h7F, f, \hD000, \h0100),
                IncDecDepth)

IncDecNext == IncR8 \/ DecR8

\* Programs of IncR8 and DecR8.
IncDecSpec == IncDecInit /\ [][IncDecNext]_vars

\* ------------------------------------------------------ decoding programs
(* Opcode::from(value) on a byte of the driver's choice: the descriptor is *)
(* recorded in the trace next to the byte; a panic of the decoder ends the *)
(* process. The machine is not touched.                                    *)
Decode ==
    \E value \in Byte :
        /\ Running
        /\ fault' = IF IsDescriptor(decode(value)) THEN fault ELSE "decode"
        /\ trace' = Append(trace, [opcode |-> decode(value), before |-> Machine,
                                   byte |-> value])
        /\ limit' = limit - 1
        /\ UNCHANGED <<registers, mem, ime, cart, build, cycles>>

(* The decoder on every byte, and LoadR8 on a machine whose HL points into *)
(* the cartridge (0x0002 holds 0xC0) or into work RAM.                     *)
DecodeDepth == 1

DecodeInit ==
    \E b \in Builds, c \in CartImages, hl \in {\h0002, \hC000} :
        StartAt(Loaded(b, c, \h1234, \h5678, hl, \h9A, \h00, \hD000, \h0100),
                DecodeDepth)

DecodeNext == Decode \/ LoadR8

DecodeSpec == DecodeInit /\ [][DecodeNext]_vars

\* ------------------------------------------------------- memory programs
(* Calls of the address space's own operations, Mem::get_u8 / set_u8 /     *)
(* get_u16 / set_u16, as the engine or a driver makes them. A read leaves  *)
(* the machine as it is, or ends the process.                              *)
MemAddresses ==
    {\h0000, \h3FFF, \h4000, \h7FFF, \h8000, \hC000, \hC001, \hDDFF,
     \hDE00, \hDFFF, \hE000, \hE001, \hFDFF, \hFE00, \hFE9F, \hFEA0,
     \hFEFF, \hFF00, \hFF4B, \hFF4C, \hFF7F, \hFF80, \hFFFE, \hFFFF}
MemBytes == {\h4C, \h7F, \h80}
MemWords == {\h1234, \hFF00}

MemGetU8 == \E index \in MemAddresses :
              Running /\ Step(Op("get_u8", index, 0), Probe(Machine, index))
MemSetU8 == \E index \in MemAddresses, value \in MemBytes :
              Running /\ Step(Op("set_u8", index, value),
                              set_u8(Machine, index, value))
MemGetU16 == \E index \in MemAddresses :
               Running /\ Step(Op("get_u16", index, 0),
                               Probe16(Machine, index))
MemSetU16 == \E index \in MemAddresses, value \in MemWords :
               Running /\ Step(Op("set_u16", index, value),
                               set_u16(Machine, index, value))

(* The four operations, and the load between A and 0xFF00 + an immediate   *)
(* byte, on a machine whose pc points into work RAM (where the program     *)
(* writes the immediate byte first).                                       *)
MemDepth == 2

MemInit ==
    \E b \in Builds, c \in CartImages :
        StartAt(Loaded(b, c, \h1234, \h5678, \hC000, \h9A, \h00, \hD000,
                       \hC000), MemDepth)

MemNext == MemGetU8 \/ MemSetU8 \/ MemGetU16 \/ MemSetU16 \/ LoadIndOffImm8

MemSpec == MemInit /\ [][MemNext]_vars

\* ---------------------------------------------------------- store programs
(* Writes through the address space's own operations and through the store *)
(* instructions, on a machine whose BC and DE point into the cartridge and *)
(* whose HL, sp and immediate operand point into it or into work RAM (the  *)
(* word at 0x0100 is 0x1234, the word at 0x0102 is 0x80C0).                *)
RomDepth == 1

RomInit ==
    \E b \in Builds, c \in CartImages, hl \in {\h0002, \h7FFF, \hC000},
       sp \in {\h4000, \hD000}, pc \in {\h0100, \h0102} :
        StartAt(Loaded(b, c, \h1234, \h5678, hl, \h9A, \h00, sp, pc), RomDepth)

RomNext ==
    \/ MemSetU8 \/ MemSetU16 \/ LoadR8 \/ LoadImm8 \/ LoadIndR16
    \/ LoadIndImm16 \/ LoadIndImm16SP \/ PushR16

RomSpec == RomInit /\ [][RomNext]_vars

\* ------------------------------------------------------- stepped programs
(* The driver's step on the running machine; the trace holds the byte      *)
(* fetched, what it decoded to, and the machine before the fetch.          *)
FetchDecodeExecute ==
    /\ Running
    /\ \E g \in {step(Machine)} :
          /\ registers' = g.registers
          /\ mem' = g.mem
          /\ ime' = g.ime
          /\ cycles' = g.cycles
          /\ fault' = g.fault
          /\ cart' = g.cart
    /\ trace' = Append(trace, [opcode |-> decode(FetchedByte(Machine)),
                               before |-> Machine,
                               fetched |-> FetchedByte(Machine)])
    /\ limit' = limit - 1
    /\ UNCHANGED build

(* Cartridges that repeat a four-byte program: load 0x05 into A and add    *)
(* 0x03 to it; and a no-operation followed by the prefix byte 0xCB. The    *)
(* machine starts at a program counter inside the cartridge, with A and    *)
(* the flags as an earlier program may have left them.                     *)
Programs == {<<\h3E, \h05, \hC6, \h03>>, <<\h00, \hCB, \h3E, \hCB>>}
EntryPoints == {\h0000, \h0001, \h0100, \h7FFC}
StepDepth == 2

StepInit ==
    \E b \in Builds, c \in Programs, pc \in EntryPoints,
       a \in {\h00, \h0D, \hFF}, f \in {\h00, \hF0} :
        StartAt(Loaded(b, c, \h1234, \h5678, \hC000, a, f, \hD000, pc),
                StepDepth)

StepNext == FetchDecodeExecute

StepSpec == StepInit /\ [][StepNext]_vars

\* ------------------------------------------------------------ properties
(* The executed instructions are numbered 1 .. Len(trace). Before(i) is    *)
(* the machine the i-th was executed on, After(i) the machine it left      *)
(* (faulted, if it panicked), Opcode(i) its descriptor.                    *)
Steps == 1 .. Len(trace)
Before(i) == trace[i].before
Opcode(i) == trace[i].opcode
After(i) == IF i < Len(trace) THEN trace[i + 1].before ELSE Machine

\* Whether the JumpCondition of the i-th instruction held when it executed.
Taken(i) == ConditionHolds(RegF(Before(i)), Opcode(i).x, Opcode(i).y)

\* The n bytes at pc are an operand: readable, and pc + n is an address.
OperandAt(g, n) ==
    /\ RegPC(g) + n <= 65535
    /\ \A k \in 0 .. n - 1 : ~ReadPanics(RegPC(g) + k)

\* The n bytes below sp are writable memory.
RoomBelow(g, n) ==
    /\ RegSP(g) >= n
    /\ \A k \in 1 .. n : ~WritePanics(RegSP(g) - k)

\* The word at sp can be popped: readable, and sp + 2 is an address.
WordAtSP(g) ==
    /\ RegSP(g) + 2 <= 65535
    /\ ~ReadPanics(RegSP(g)) /\ ~ReadPanics(RegSP(g) + 1)

\* The cells of a RAM array that differ between two of its values.
DiffCells(a1, a2) ==
    {k \in DOMAIN a1 \cup DOMAIN a2 : Cell(a1, k) # Cell(a2, k)}

\* Memory differs between g and r at most at the addresses of the set.
MemSameOutside(g, r, addrs) ==
    \A n \in {"ram", "sprite_oam", "io_ports", "ram_stack"} :
        \A k \in DiffCells(g.mem[n], r.mem[n]) :
            \E a \in addrs : Region(a) = n /\ RegionIndex(a) = k

(* C1: in every state reachable from power-on by executed instructions,    *)
(* the low nibble of the flag register F is zero: F & 0x0F = 0.            *)
FlagLowNibbleZero == BitAnd(RegF(Machine), \h0F) = 0

(* C2: for all pairs X and Y and every SP with SP-2 and SP-1 in writable   *)
(* memory, PushR16(X) followed by PopR16(Y) completes, leaves Y holding    *)
(* the value X had before the push, and leaves SP at its pre-push value.   *)
StackRoundTrip ==
    \A i \in Steps :
        (/\ i < Len(trace)
         /\ Opcode(i).op = "PushR16" /\ Opcode(i + 1).op = "PopR16"
         /\ RoomBelow(Before(i), 2))
        => /\ After(i + 1).fault = "none"
           /\ get_r16(After(i + 1), Opcode(i + 1).x)
                 = get_r16(Before(i), Opcode(i).x)
           /\ RegSP(After(i + 1)) = RegSP(Before(i))

(* C3: with SP-4 .. SP-1 in writable memory, push X, push Y, pop, pop      *)
(* returns Y from the first pop and X from the second, SP ends at its      *)
(* initial value, and no memory outside the four bytes below the initial   *)
(* SP is modified.                                                         *)
StackLifo ==
    \A i \in Steps :
        (/\ i + 3 <= Len(trace)
         /\ Opcode(i).op = "PushR16" /\ Opcode(i + 1).op = "PushR16"
         /\ Opcode(i + 2).op = "PopR16" /\ Opcode(i + 3).op = "PopR16"
         /\ RoomBelow(Before(i), 4))
        => LET sp == RegSP(Before(i))
           IN /\ After(i + 3).fault = "none"
              /\ get_r16(After(i + 2), Opcode(i + 2).x)
                    = get_r16(Before(i + 1), Opcode(i + 1).x)
              /\ get_r16(After(i + 3), Opcode(i + 3).x)
                    = get_r16(Before(i), Opcode(i).x)
              /\ RegSP(After(i + 3)) = sp
              /\ MemSameOutside(Before(i), After(i + 3), sp - 4 .. sp - 1)

(* C4: a taken CallImm16 whose operand t is at PC, with two writable bytes *)
(* below SP, stores the return address PC+2 as a little-endian word at     *)
(* SP-2, sets SP to SP-2 and PC to t; a taken Return that follows sets PC  *)
(* to that return address and SP to its pre-call value. Restart(v) pushes  *)
(* the current PC the same way and sets PC to v.                           *)
CallReturnDiscipline ==
    \A i \in Steps :
        LET g == Before(i)
            r == After(i)
            sp == RegSP(g)
            pc == RegPC(g)
        IN /\ (/\ Opcode(i).op = "CallImm16" /\ Taken(i)
               /\ OperandAt(g, 2) /\ RoomBelow(g, 2))
              => /\ r.fault = "none"
                 /\ get_u8(r, sp - 2) = (pc + 2) % 256
                 /\ get_u8(r, sp - 1) = (pc + 2) \div 256
                 /\ RegSP(r) = sp - 2
                 /\ RegPC(r) = get_u16(g, pc)
                 /\ (/\ i < Len(trace)
                     /\ Opcode(i + 1).op = "Return" /\ Taken(i + 1))
                    => /\ After(i + 1).fault = "none"
                       /\ RegPC(After(i + 1)) = pc + 2
                       /\ RegSP(After(i + 1)) = sp
           /\ (Opcode(i).op = "Restart" /\ RoomBelow(g, 2))
              => /\ r.fault = "none"
                 /\ get_u8(r, sp - 2) = pc % 256
                 /\ get_u8(r, sp - 1) = pc \div 256
                 /\ RegSP(r) = sp - 2
                 /\ RegPC(r) = Opcode(i).x

\* C4's case: a taken call and the taken return after it have completed.
CallThenReturnDone ==
    \E i \in Steps :
        /\ i < Len(trace)
        /\ Opcode(i).op = "CallImm16" /\ Taken(i)
        /\ Opcode(i + 1).op = "Return" /\ Taken(i + 1)
        /\ After(i + 1).fault = "none"
        /\ RegPC(After(i + 1)) = RegPC(Before(i)) + 2

(* C5: ReturnInterupt, with a word to pop at SP, sets PC to the            *)
(* little-endian word stored at address SP, then increments SP by 2, and   *)
(* sets the interrupt master enable flag to 1.                             *)
ReturnInteruptPops ==
    \A i \in Steps :
        (Opcode(i).op = "ReturnInterupt" /\ WordAtSP(Before(i)))
        => /\ After(i).fault = "none"
           /\ RegPC(After(i)) = get_u16(Before(i), RegSP(Before(i)))
           /\ RegSP(After(i)) = RegSP(Before(i)) + 2
           /\ After(i).ime = 1

\* The operand bytes of JumpImm16 / JumpOffImm8 and their not-taken cycles.
JumpOperandBytes(op) == IF op = "JumpImm16" THEN 2 ELSE 1
JumpBaseCycles(op) == IF op = "JumpImm16" THEN 3 ELSE 2
\* The target: the operand word, or the address past the operand plus the
\* operand byte as a signed offset.
JumpTarget(g, op) ==
    IF op = "JumpImm16" THEN get_u16(g, RegPC(g))
    ELSE WrapU16(RegPC(g) + 1 + AsI8(get_u8(g, RegPC(g))))

(* C6: JumpImm16(c) and JumpOffImm8(c) with their operand at PC: if c is   *)
(* false, PC ends exactly past the operand bytes (2, 1) and the cycle      *)
(* count is the lower one (3, 2); if c is true (or Always), PC is the jump *)
(* target and the cycle count is exactly one higher.                       *)
ConditionalJumpOutcome ==
    \A i \in Steps :
        LET g == Before(i)
            r == After(i)
            op == Opcode(i).op
        IN (op \in {"JumpImm16", "JumpOffImm8"}
              /\ OperandAt(g, JumpOperandBytes(op)))
           => /\ r.fault = "none"
              /\ IF Taken(i)
                 THEN /\ RegPC(r) = JumpTarget(g, op)
                      /\ r.cycles = JumpBaseCycles(op) + 1
                 ELSE /\ RegPC(r) = RegPC(g) + JumpOperandBytes(op)
                      /\ r.cycles = JumpBaseCycles(op)

\* The register bytes other than those of pc are the same in g and r.
SameButPC(g, r) ==
    \A k \in 0 .. 11 :
        k \notin {FieldOffset(g.build, "pc"), FieldOffset(g.build, "pc") + 1}
        => r.registers[k] = g.registers[k]

(* C7: a CallImm16(c) whose condition is false leaves SP, memory and every *)
(* register but PC unchanged and advances PC by exactly 2; a Return(c)     *)
(* whose condition is false leaves SP, PC, the registers and memory        *)
(* unchanged; both report fewer cycles (3, 2) than when the condition is   *)
(* true (6, 5).                                                            *)
NonTakenCallReturn ==
    \A i \in Steps :
        LET g == Before(i)
            r == After(i)
        IN /\ (Opcode(i).op = "CallImm16" /\ OperandAt(g, 2))
              => IF Taken(i)
                 THEN RoomBelow(g, 2) => (r.fault = "none" /\ r.cycles = 6)
                 ELSE /\ r.fault = "none"
                      /\ r.cycles = 3
                      /\ RegPC(r) = RegPC(g) + 2
                      /\ RegSP(r) = RegSP(g)
                      /\ SameButPC(g, r)
                      /\ r.mem = g.mem
           /\ Opcode(i).op = "Return"
              => IF Taken(i)
                 THEN WordAtSP(g) => (r.fault = "none" /\ r.cycles = 5)
                 ELSE /\ r.fault = "none"
                      /\ r.cycles = 2
                      /\ r.registers = g.registers
                      /\ r.mem = g.mem

\* C7's case: a call and then a return, neither taken, have completed.
NotTakenDone ==
    /\ Len(trace) = 2
    /\ Opcode(1).op = "CallImm16" /\ ~Taken(1)
    /\ Opcode(2).op = "Return" /\ ~Taken(2)
    /\ fault = "none"

\* The immediate bytes an instruction's arm fetches (fetch_byte: 1,
\* fetch_word: 2).
ImmediateBytes(op) ==
    CASE op \in {"LoadImm8", "LoadIndOffImm8", "LoadHLOffSp", "MathImm8",
                 "AddSPImm8", "JumpOffImm8"} -> 1
      [] op \in {"LoadIndImm16", "LoadImm16", "LoadIndImm16SP", "JumpImm16",
                 "CallImm16"} -> 2
      [] OTHER -> 0

(* C8: for every instruction the engine executes, the returned cycle count *)
(* is at least 1 + the number of immediate bytes the instruction consumed, *)
(* AddSPImm8 and LoadHLOffSp included.                                     *)
ImmediateCycles ==
    \A i \in Steps :
        After(i).fault = "none"
        => After(i).cycles >= 1 + ImmediateBytes(Opcode(i).op)

\* Whether the operand of the OpcodeRegister8 is the (HL) pseudo-register
\* with an address that may be read / written.
HLRead(g, reg) == reg = OR8_HL => ~ReadPanics(get_r16(g, R16_HL))
HLWrite(g, reg) == reg = OR8_HL => ~WritePanics(get_r16(g, R16_HL))
Indirections(reg) == IF reg = OR8_HL THEN 1 ELSE 0

(* C9: LoadR8 and MathR8 between plain registers report 1 cycle and each   *)
(* (HL) operand adds exactly 1; LoadImm8 reports 3 to (HL) and 2 to a      *)
(* register; IncR8 / DecR8 report 3 on (HL) and 1 on a register.           *)
HLCycleAccounting ==
    \A i \in Steps :
        LET g == Before(i)
            r == After(i)
            o == Opcode(i)
        IN /\ (o.op = "LoadR8" /\ HLWrite(g, o.x) /\ HLRead(g, o.y))
              => /\ r.fault = "none"
                 /\ r.cycles = 1 + Indirections(o.x) + Indirections(o.y)
           /\ (o.op = "MathR8" /\ HLRead(g, o.y))
              => (r.fault = "none" /\ r.cycles = 1 + Indirections(o.y))
           /\ (o.op = "LoadImm8" /\ OperandAt(g, 1) /\ HLWrite(g, o.x))
              => (r.fault = "none" /\ r.cycles = 2 + Indirections(o.x))
           /\ (o.op \in {"IncR8", "DecR8"} /\ HLWrite(g, o.x))
              => (r.fault = "none" /\ r.cycles = 1 + 2 * Indirections(o.x))

(* C10: the pair read as 16 bits is its first register * 256 + its second: *)
(* BC = B * 256 + C, and likewise DE, HL and AF (Register8 2p and 2p + 1   *)
(* are the halves of Register16 p).                                        *)
PairByteOrder ==
    \A p \in {R16_BC, R16_DE, R16_HL, R16_AF} :
        get_r16(Machine, p)
            = get_r8(Machine, 2 * p) * 256 + get_r8(Machine, 2 * p + 1)

\* The fields of `struct Registers`, and the fields that back a Register16.
RegisterFields == {"b", "c", "d", "e", "h", "l", "a", "f", "sp", "pc"}
Backing(p) ==
    CASE p = R16_BC -> {"b", "c"} [] p = R16_DE -> {"d", "e"}
      [] p = R16_HL -> {"h", "l"} [] p = R16_AF -> {"a", "f"}
      [] p = R16_SP -> {"sp"} [] OTHER -> {"pc"}
FieldValue(g, field) ==
    IF field \in {"sp", "pc"} THEN Field16(g, field) ELSE Field8(g, field)

(* C11: for every pair p of BC, DE, HL, AF, SP, PC and every 16-bit w,      *)
(* set_r16(p, w) followed by get_r16(p) returns w, every register that     *)
(* does not back p is unchanged, and get_r16(SP) / get_r16(PC) return the  *)
(* native sp and pc that push, pop and the instruction fetch use.          *)
PairRoundTrip ==
    \A i \in Steps :
        LET g == Before(i)
            r == After(i)
            p == Opcode(i).x
        IN Opcode(i).op = "set_r16"
           => /\ get_r16(r, p) = Opcode(i).y
              /\ \A field \in RegisterFields \ Backing(p) :
                    FieldValue(r, field) = FieldValue(g, field)
              /\ get_r16(r, R16_SP) = RegSP(r)
              /\ get_r16(r, R16_PC) = RegPC(r)

\* The i-th instruction returned: it did not panic.
Completed(i) == After(i).fault = "none"

(* The i-th instruction is MathR8 or MathImm8 with MathOp in ops and an    *)
(* operand that can be read: a register, (HL) at a readable address, or    *)
(* the byte at pc.                                                         *)
IsMath(i, ops) ==
    /\ Opcode(i).op \in {"MathR8", "MathImm8"}
    /\ Opcode(i).x \in ops
    /\ IF Opcode(i).op = "MathR8" THEN HLRead(Before(i), Opcode(i).y)
       ELSE OperandAt(Before(i), 1)

\* Its operand value.
MathOperand(i) ==
    IF Opcode(i).op = "MathR8" THEN FetchedRegister8(Before(i), Opcode(i).y)
    ELSE FetchedByte(Before(i))

\* The carry-in of the MathOps that take one: Adc (1) and Sbc (3).
MathCarryIn(i) == IF Opcode(i).x \in {1, 3} THEN CarryIn(Before(i)) ELSE 0

\* A flag of the machine the i-th instruction left.
FlagAfter(i, flag) == is_set(RegF(After(i)), flag)

(* C12: after Add, Adc, Sub, Sbc or Cp (MathR8 and MathImm8), Carry is set *)
(* iff the full operation overflowed or borrowed: A + operand (+ carry-in  *)
(* for Adc) > 0xFF for the additions, A < operand (+ carry-in for Sbc) for *)
(* the subtractions and the compare.                                       *)
CarryRule ==
    \A i \in Steps :
        (IsMath(i, {0, 1, 2, 3, 7}) /\ Completed(i))
        => LET a == RegA(Before(i))
               s == MathOperand(i) + MathCarryIn(i)
           IN FlagAfter(i, FlagCarry)
              <=> IF Opcode(i).x \in {0, 1} THEN a + s > 255 ELSE a < s

(* C13: after Add or Adc (MathR8 and MathImm8), Half-Carry is set iff a    *)
(* carry went from bit 3 into bit 4: (A & 0x0F) + (operand & 0x0F)         *)
(* (+ carry-in for Adc) > 0x0F.                                            *)
HalfCarryAdditions ==
    \A i \in Steps :
        (IsMath(i, {0, 1}) /\ Completed(i))
        => (FlagAfter(i, FlagHalfCarry)
            <=> (RegA(Before(i)) % 16) + (MathOperand(i) % 16) + MathCarryIn(i)
                   > 15)

(* C14: Sub, Sbc and Cp (MathR8 and MathImm8) complete for every A and     *)
(* operand, and leave Half-Carry set iff a borrow went from bit 4 into     *)
(* bit 3: (A & 0x0F) < (operand & 0x0F) (+ carry-in for Sbc).              *)
HalfCarrySubtractions ==
    \A i \in Steps :
        IsMath(i, {2, 3, 7})
        => /\ Completed(i)
           /\ FlagAfter(i, FlagHalfCarry)
              <=> (RegA(Before(i)) % 16) < (MathOperand(i) % 16) + MathCarryIn(i)

(* C15: after Add, Adc, Sub, Sbc or Cp (MathR8 and MathImm8), Zero is set  *)
(* iff the result byte is 0 (the byte left in A; for Cp the difference     *)
(* A - operand, which is dropped), and Subtract is set after Sub, Sbc and  *)
(* Cp and clear after Add and Adc.                                         *)
ZeroSubtractRule ==
    \A i \in Steps :
        (IsMath(i, {0, 1, 2, 3, 7}) /\ Completed(i))
        => LET result == IF Opcode(i).x = 7
                         THEN WrapU8(RegA(Before(i)) - MathOperand(i))
                         ELSE RegA(After(i))
           IN /\ FlagAfter(i, FlagZero) <=> result = 0
              /\ FlagAfter(i, FlagSubtract) <=> Opcode(i).x \in {2, 3, 7}
              /\ Opcode(i).x = 0
                 => result = WrapU8(RegA(Before(i)) + MathOperand(i))
              /\ Opcode(i).x = 2
                 => result = WrapU8(RegA(Before(i)) - MathOperand(i))

\* C15's case: a subtraction from A = 0xFF has left 0 in A, with Zero and
\* Subtract set.
SubtractionToZeroDone ==
    \E i \in Steps :
        /\ IsMath(i, {2, 3}) /\ Completed(i)
        /\ RegA(Before(i)) = \hFF /\ RegA(After(i)) = 0
        /\ FlagAfter(i, FlagZero) /\ FlagAfter(i, FlagSubtract)

(* C16: Add (MathR8 and MathImm8) at the boundaries: 0x00 + 0x00 leaves    *)
(* Zero set and Carry and Half-Carry clear; 0xFF + 0x01 leaves Carry,      *)
(* Half-Carry and Zero set; 0x0F + 0x01 leaves Half-Carry set and Carry    *)
(* clear.                                                                  *)
AddBoundaries ==
    \A i \in Steps :
        IsMath(i, {0})
        => LET a == RegA(Before(i))
               s == MathOperand(i)
           IN /\ Completed(i)
              /\ (a = \h00 /\ s = \h00)
                 => /\ FlagAfter(i, FlagZero)
                    /\ ~FlagAfter(i, FlagCarry)
                    /\ ~FlagAfter(i, FlagHalfCarry)
              /\ (a = \hFF /\ s = \h01)
                 => /\ FlagAfter(i, FlagCarry)
                    /\ FlagAfter(i, FlagHalfCarry)
                    /\ FlagAfter(i, FlagZero)
              /\ (a = \h0F /\ s = \h01)
                 => /\ FlagAfter(i, FlagHalfCarry)
                    /\ ~FlagAfter(i, FlagCarry)

\* C16's case: the immediate Add 0xFF + 0x01 has set Carry and Half-Carry.
AddOverflowDone ==
    \E i \in Steps :
        /\ IsMath(i, {0}) /\ Opcode(i).op = "MathImm8"
        /\ RegA(Before(i)) = \hFF /\ MathOperand(i) = \h01
        /\ FlagAfter(i, FlagCarry) /\ FlagAfter(i, FlagHalfCarry)

(* C17: And, Xor and Or (MathR8 and MathImm8) leave the bitwise result in  *)
(* A, clear Carry and Subtract, set Half-Carry for And and clear it for    *)
(* Or and Xor, and set Zero iff the result is 0.                           *)
LogicalFlags ==
    \A i \in Steps :
        IsMath(i, {4, 5, 6})
        => LET a == RegA(Before(i))
               s == MathOperand(i)
               result == CASE Opcode(i).x = 4 -> BitAnd(a, s)
                           [] Opcode(i).x = 5 -> BitXor(a, s)
                           [] OTHER -> BitOr(a, s)
           IN /\ Completed(i)
              /\ RegA(After(i)) = result
              /\ ~FlagAfter(i, FlagCarry)
              /\ ~FlagAfter(i, FlagSubtract)
              /\ FlagAfter(i, FlagHalfCarry) <=> Opcode(i).x = 4
              /\ FlagAfter(i, FlagZero) <=> result = 0

\* C17's case: an And with all flags set before it has left a non-zero
\* result, Half-Carry set and the other flags clear.
AndDone ==
    \E i \in Steps :
        /\ IsMath(i, {4}) /\ RegF(Before(i)) = \hF0
        /\ RegA(After(i)) # 0 /\ RegF(After(i)) = FlagHalfCarry

(* C18: AddR16(rr) sets HL to (HL + rr) mod 2^16, clears Subtract, sets    *)
(* Carry iff HL + rr > 0xFFFF, sets Half-Carry iff                         *)
(* (HL & 0x0FFF) + (rr & 0x0FFF) > 0x0FFF, and leaves Zero unchanged.      *)
AddHLRule ==
    \A i \in Steps :
        Opcode(i).op = "AddR16"
        => LET hl == get_r16(Before(i), R16_HL)
               rr == get_r16(Before(i), Opcode(i).x)
           IN /\ Completed(i)
              /\ get_r16(After(i), R16_HL) = WrapU16(hl + rr)
              /\ ~FlagAfter(i, FlagSubtract)
              /\ FlagAfter(i, FlagCarry) <=> hl + rr > 65535
              /\ FlagAfter(i, FlagHalfCarry)
                 <=> (hl % 4096) + (rr % 4096) > 4095
              /\ FlagAfter(i, FlagZero) <=> is_set(RegF(Before(i)), FlagZero)

(* C19: after IncR8 and after DecR8, on any register or on (HL), the       *)
(* Subtract flag is clear (the decrement does not set it) and Carry is as  *)
(* it was before the instruction.                                          *)
IncDecSubtractClear ==
    \A i \in Steps :
        (Opcode(i).op \in {"IncR8", "DecR8"} /\ Completed(i))
        => /\ ~FlagAfter(i, FlagSubtract)
           /\ FlagAfter(i, FlagCarry) <=> is_set(RegF(Before(i)), FlagCarry)

\* C19's case: a DecR8 executed with Subtract and Carry set has returned,
\* with Subtract clear and Carry still set.
DecrementDone ==
    \E i \in Steps :
        /\ Opcode(i).op = "DecR8" /\ Completed(i)
        /\ is_set(RegF(Before(i)), FlagSubtract)
        /\ is_set(RegF(Before(i)), FlagCarry)
        /\ ~FlagAfter(i, FlagSubtract) /\ FlagAfter(i, FlagCarry)

\* The instructions that store to ime.
ImeWriters == {"EnableInterrupts", "DisableInterrupts", "ReturnInterupt"}

\* The executed instructions that store to ime and returned.
ImeWrites == {i \in Steps : Opcode(i).op \in ImeWriters /\ Completed(i)}

(* C20: IME is 0 at power-on and always 0 or 1; it is 1 iff the most       *)
(* recently executed of EnableInterrupts, DisableInterrupts and            *)
(* ReturnInterupt was EnableInterrupts or ReturnInterupt; no other         *)
(* instruction changes it; and it never affects PC: every instruction      *)
(* leaves the same registers, executed with IME = 0 or IME = 1.            *)
ImeRule ==
    /\ ime \in {0, 1}
    /\ trace = <<>> => ime = 0
    /\ ime = 1
       <=> \E i \in ImeWrites :
              /\ Opcode(i).op # "DisableInterrupts"
              /\ \A j \in ImeWrites : j <= i
    /\ \A i \in Steps :
          /\ Opcode(i).op \notin ImeWriters => After(i).ime = Before(i).ime
          /\ LET other == execute([Before(i) EXCEPT !.ime = 1 - @], Opcode(i))
             IN /\ other.registers = After(i).registers
                /\ other.fault = After(i).fault

\* C20's case: interrupts were enabled and then disabled again.
EnabledThenDisabled ==
    \E i \in Steps :
        /\ i < Len(trace)
        /\ Opcode(i).op \in {"EnableInterrupts", "ReturnInterupt"}
        /\ After(i).ime = 1
        /\ Opcode(i + 1).op = "DisableInterrupts"
        /\ ime = 0

\* Whether the i-th record of the trace is a decoding of a byte (by Decode)
\* rather than the execution of a descriptor.
IsDecoding(i) == "byte" \in DOMAIN trace[i]
DecodedByte(i) == trace[i].byte

(* C26: every byte b of 0x40 .. 0x7F, 0x76 included, decodes to            *)
(* LoadR8(dst = (b >> 3) & 7, src = b & 7), the operands numbering         *)
(* [B, C, D, E, H, L, (HL), A]; executing LoadR8 with a (HL) operand reads *)
(* or writes the byte of memory at HL and no register in its place, and    *)
(* without a (HL) operand memory is not touched.                           *)
LoadBlockDecoding ==
    \A i \in Steps :
        LET g == Before(i)
            r == After(i)
            o == Opcode(i)
            hl == get_r16(g, R16_HL)
        IN /\ (IsDecoding(i) /\ DecodedByte(i) \in \h40 .. \h7F)
              => /\ r.fault = "none"
                 /\ o = Op("LoadR8", (DecodedByte(i) \div 8) % 8,
                          DecodedByte(i) % 8)
                 /\ o.x \in OpcodeRegister8 /\ o.y \in OpcodeRegister8
                 /\ OR8_HL = 6 /\ OR8_A = 7
           /\ (~IsDecoding(i) /\ o.op = "LoadR8")
              => /\ (o.y = OR8_HL /\ o.x # OR8_HL /\ ~ReadPanics(hl))
                    => /\ r.fault = "none"
                       /\ r.registers =
                            [g.registers EXCEPT ![Register8From(o.x)] =
                                                   get_u8(g, hl)]
                       /\ r.mem = g.mem
                 /\ (o.x = OR8_HL /\ o.y # OR8_HL /\ ~WritePanics(hl))
                    => /\ r.fault = "none"
                       /\ r.registers = g.registers
                       /\ get_u8(r, hl) = get_r8(g, Register8From(o.y))
                       /\ MemSameOutside(g, r, {hl})
                 /\ (o.x = OR8_HL /\ o.y = OR8_HL /\ ~WritePanics(hl))
                    => (r.fault = "none" /\ r.registers = g.registers
                        /\ r.mem = g.mem)
                 /\ (o.x # OR8_HL /\ o.y # OR8_HL)
                    => (r.fault = "none" /\ r.mem = g.mem)

\* The byte 0x76 has been decoded: to the load of (HL) from (HL).
HaltByteDecoded ==
    \E i \in Steps :
        /\ IsDecoding(i) /\ DecodedByte(i) = \h76
        /\ Opcode(i) = Op("LoadR8", OR8_HL, OR8_HL)
        /\ fault = "none"

\* The opcode bytes of the ALU operations on an immediate byte, in the
\* order of MathOp: Add, Adc, Sub, Sbc, And, Xor, Or, Cp.
MathImm8Bytes == <<\hC6, \hCE, \hD6, \hDE, \hE6, \hEE, \hF6, \hFE>>

(* C27: every byte b of 0x80 .. 0xBF decodes to                            *)
(* MathR8(op = (b >> 3) & 7, r = b & 7), op numbering Add, Adc, Sub, Sbc,  *)
(* And, Xor, Or, Cp; the bytes 0xC6, 0xCE, 0xD6, 0xDE, 0xE6, 0xEE, 0xF6    *)
(* and 0xFE decode to MathImm8 of Add, Adc, Sub, Sbc, And, Xor, Or and Cp. *)
MathBlockDecoding ==
    \A i \in Steps :
        IsDecoding(i)
        => /\ DecodedByte(i) \in \h80 .. \hBF
              => /\ After(i).fault = "none"
                 /\ Opcode(i) = Op("MathR8", (DecodedByte(i) \div 8) % 8,
                                   DecodedByte(i) % 8)
                 /\ Opcode(i).x \in MathOp /\ Opcode(i).y \in OpcodeRegister8
           /\ \A k \in 1 .. 8 :
                 DecodedByte(i) = MathImm8Bytes[k]
                 => (After(i).fault = "none"
                     /\ Opcode(i) = Op("MathImm8", k - 1, 0))

\* The byte 0xFE has been decoded: to the comparison with an immediate byte.
CompareImmediateDecoded ==
    \E i \in Steps :
        /\ IsDecoding(i) /\ DecodedByte(i) = \hFE
        /\ Opcode(i) = Op("MathImm8", 7, 0)
        /\ fault = "none"

\* The bytes no instruction is assigned to, and the prefix of the second
\* instruction page.
IllegalBytes ==
    {\hD3, \hDB, \hDD, \hE3, \hE4, \hEB, \hEC, \hED, \hF4, \hFC, \hFD}
PrefixByte == \hCB

(* C29: decoding a byte fails fatally exactly when the byte is 0xCB or one *)
(* of 0xD3, 0xDB, 0xDD, 0xE3, 0xE4, 0xEB, 0xEC, 0xED, 0xF4, 0xFC, 0xFD;    *)
(* every other byte, the relative jumps 0x18, 0x28 and 0x38 included,      *)
(* yields a descriptor.                                                    *)
DecoderTotality ==
    \A i \in Steps :
        IsDecoding(i)
        => /\ After(i).fault # "none"
              <=> DecodedByte(i) \in IllegalBytes \cup {PrefixByte}
           /\ IsDescriptor(Opcode(i))
              <=> DecodedByte(i) \notin IllegalBytes \cup {PrefixByte}

\* Whether the i-th record of the trace is a fetch-decode-execute step, and
\* the opcode byte the step fetched.
IsStep(i) == "fetched" \in DOMAIN trace[i]
FetchedOpcode(i) == trace[i].fetched

(* C28: decoding the prefix byte 0xCB fails fatally and yields no          *)
(* descriptor; a fetch-decode-execute step whose pc points at 0xCB ends    *)
(* the process and executes nothing: but for the fetch (pc + 1), the       *)
(* registers, memory, ime and the cycle count are as before the step, and  *)
(* no step follows it.                                                     *)
PrefixRejected ==
    \A i \in Steps :
        (IsStep(i) /\ FetchedOpcode(i) = PrefixByte)
        => /\ ~IsDescriptor(Opcode(i))
           /\ After(i).fault # "none"
           /\ i = Len(trace)
           /\ SameButPC(Before(i), After(i))
           /\ RegPC(After(i)) = RegPC(Before(i)) + 1
           /\ After(i).mem = Before(i).mem
           /\ After(i).ime = Before(i).ime
           /\ After(i).cycles = Before(i).cycles

\* A step has executed a no-operation and the next step has fetched 0xCB.
PrefixStepRejected ==
    /\ Len(trace) = 2
    /\ IsStep(1) /\ Opcode(1) = Op("Noop", 0, 0)
    /\ IsStep(2) /\ FetchedOpcode(2) = PrefixByte
    /\ fault = "decode"

\* The machine is about to run the scenario: the flags are clear and the
\* bytes at pc .. pc + 3 are 0x3E, 0x05, 0xC6, 0x03.
ScenarioAt(g) ==
    /\ RegF(g) = 0
    /\ RegPC(g) + 4 <= 65535
    /\ <<get_u8(g, RegPC(g)), get_u8(g, RegPC(g) + 1),
         get_u8(g, RegPC(g) + 2), get_u8(g, RegPC(g) + 3)>>
         = <<\h3E, \h05, \hC6, \h03>>

(* C21: with the bytes 0x3E, 0x05, 0xC6, 0x03 at pc .. pc + 3 and the      *)
(* flags clear, two fetch-decode-execute steps complete and leave          *)
(* A = 0x08, Zero, Carry and Half-Carry clear, pc advanced by 4, and       *)
(* report 2 cycles each, 4 in total.                                       *)
ScenarioOutcome ==
    (Len(trace) >= 1 /\ IsStep(1) /\ ScenarioAt(Before(1)))
    => /\ After(1).fault = "none"
       /\ After(1).cycles = 2
       /\ Len(trace) = 2
          => /\ IsStep(2)
             /\ fault = "none"
             /\ RegA(Machine) = \h08
             /\ ~is_set(RegF(Machine), FlagZero)
             /\ ~is_set(RegF(Machine), FlagCarry)
             /\ ~is_set(RegF(Machine), FlagHalfCarry)
             /\ RegPC(Machine) = RegPC(Before(1)) + 4
             /\ After(1).cycles + cycles = 2 + 2

\* The addresses of the set other than a and b read the same byte in g and
\* in r.
ReadSameOutside(g, r, a, b) ==
    \A k \in MemAddresses \ {a, b} :
        ~ReadPanics(k) => get_u8(r, k) = get_u8(g, k)

(* C22: for every address A of 0xC000 .. 0xDDFF, after set8(A, v) both     *)
(* get8(A) and get8(A + 0x2000) return v; after set8(A + 0x2000, v) both   *)
(* return v as well; and the write changes no byte other than the cell     *)
(* the two addresses share.                                                *)
Mirroring ==
    \A i \in Steps :
        LET g == Before(i)
            r == After(i)
            o == Opcode(i)
        IN /\ (o.op = "set_u8" /\ o.x \in \hC000 .. \hDDFF)
              => /\ r.fault = "none"
                 /\ get_u8(r, o.x) = o.y
                 /\ get_u8(r, o.x + \h2000) = o.y
                 /\ MemSameOutside(g, r, {o.x})
                 /\ ReadSameOutside(g, r, o.x, o.x + \h2000)
           /\ (o.op = "set_u8" /\ o.x \in \hE000 .. \hFDFF)
              => /\ r.fault = "none"
                 /\ get_u8(r, o.x) = o.y
                 /\ get_u8(r, o.x - \h2000) = o.y
                 /\ MemSameOutside(g, r, {o.x - \h2000})
                 /\ ReadSameOutside(g, r, o.x, o.x - \h2000)

\* A byte written at 0xC001 has been overwritten through 0xE001.
MirrorWriteDone ==
    /\ Len(trace) = 2
    /\ Opcode(1) = Op("set_u8", \hC001, \h4C)
    /\ Opcode(2) = Op("set_u8", \hE001, \h80)
    /\ get_u8(Machine, \hC001) = \h80
    /\ fault = "none"

(* C25: for every address a with a and a + 1 writable and every word w,    *)
(* after set16(a, w) get8(a) is w mod 256, get8(a + 1) is w div 256 and    *)
(* get16(a) is w; and wherever a and a + 1 are readable, get16(a) is       *)
(* get8(a) + 256 * get8(a + 1).                                            *)
WordByteOrder ==
    /\ \A i \in Steps :
          LET r == After(i)
              o == Opcode(i)
          IN (/\ o.op = "set_u16"
              /\ o.x + 1 <= 65535
              /\ ~WritePanics(o.x) /\ ~WritePanics(o.x + 1))
             => /\ r.fault = "none"
                /\ get_u8(r, o.x) = o.y % 256
                /\ get_u8(r, o.x + 1) = o.y \div 256
                /\ get_u16(r, o.x) = o.y
    /\ \A a \in MemAddresses :
          (a + 1 <= 65535 /\ ~ReadPanics(a) /\ ~ReadPanics(a + 1))
          => /\ get_u16(Machine, a)
                  = get_u8(Machine, a) + 256 * get_u8(Machine, a + 1)
             /\ Probe16(Machine, a).fault = fault

\* The word 0x1234 has been stored at 0xC000: 0x34 there, 0x12 after it.
WordStored ==
    \E i \in Steps :
        /\ Opcode(i) = Op("set_u16", \hC000, \h1234)
        /\ get_u8(After(i), \hC000) = \h34
        /\ get_u8(After(i), \hC001) = \h12
        /\ After(i).fault = "none"

\* The two gaps of the address space, and the ranges around them that are
\* backed by RAM.
UnusableAddresses == (\hFEA0 .. \hFEFF) \cup (\hFF4C .. \hFF7F)
UsableAddresses ==
    (\h8000 .. \hFE9F) \cup (\hFF00 .. \hFF4B) \cup (\hFF80 .. \hFFFF)

\* The addresses a memory operation on index touches: one byte, or two.
Touched(o) ==
    IF o.op \in {"get_u16", "set_u16"} THEN {o.x, o.x + 1} ELSE {o.x}

(* C24: every read and every write of an address in 0xFEA0 .. 0xFEFF or    *)
(* 0xFF4C .. 0xFF7F is fatal, also when LoadIndOffImm8 reaches it with an  *)
(* offset of 0x4C .. 0x7F; every read and write of an address in           *)
(* 0x8000 .. 0xFE9F, 0xFF00 .. 0xFF4B or 0xFF80 .. 0xFFFF succeeds.        *)
UnusableRegions ==
    \A i \in Steps :
        LET g == Before(i)
            r == After(i)
            o == Opcode(i)
        IN /\ o.op \in {"get_u8", "set_u8", "get_u16", "set_u16"}
              => /\ (Touched(o) \cap UnusableAddresses # {}
                     /\ Touched(o) \subseteq UnusableAddresses \cup UsableAddresses)
                    => r.fault # "none"
                 /\ Touched(o) \subseteq UsableAddresses
                    => r.fault = "none"
                 /\ (o.op \in {"get_u8", "get_u16"} /\ r.fault = "none")
                    => (r.mem = g.mem /\ r.registers = g.registers)
           /\ (o.op = "LoadIndOffImm8" /\ OperandAt(g, 1))
              => /\ FetchedByte(g) \in \h4C .. \h7F
                    => (r.fault # "none" /\ r.mem = g.mem
                        /\ RegA(r) = RegA(g))
                 /\ FetchedByte(g) \notin \h4C .. \h7F
                    => r.fault = "none"

\* The program has stored the offset 0x4C at its pc and executed the load
\* of A from 0xFF00 + 0x4C: the process has ended.
UnusablePortLoaded ==
    /\ Len(trace) = 2
    /\ Opcode(1) = Op("set_u8", \hC000, \h4C)
    /\ Opcode(2) = Op("LoadIndOffImm8", DIR_Accumulator, 0)
    /\ fault = "unusable"

\* The two ROM windows, the ROM addresses that are looked at, and the image
\* the address space was constructed from.
RomAddresses == \h0000 .. \h7FFF
RomProbes == {\h0000, \h0002, \h0100, \h1234, \h3FFF, \h4000, \h4002,
              \h5678, \h7FFF}
ImageAtConstruction == IF trace = <<>> THEN cart ELSE Before(1).cart

\* The address the store instruction o writes first on the machine g (one
\* element), or the empty set if o stores nothing on g.
StoreTarget(g, o) ==
    CASE o.op = "LoadR8" /\ o.x = OR8_HL /\ HLRead(g, o.y) ->
           {get_r16(g, R16_HL)}
      [] o.op = "LoadImm8" /\ o.x = OR8_HL /\ OperandAt(g, 1) ->
           {get_r16(fetch_byte(g), R16_HL)}
      [] o.op = "LoadIndR16" /\ o.y = DIR_Memory ->
           {get_r16(g, Register16FromIndirect(o.x))}
      [] o.op = "LoadIndImm16" /\ o.x = DIR_Memory /\ OperandAt(g, 2) ->
           {FetchedWord(g)}
      [] o.op = "LoadIndImm16SP" /\ OperandAt(g, 2) -> {FetchedWord(g)}
      [] o.op = "PushR16" /\ RegSP(g) >= 2 -> {RegSP(g) - 2}
      [] o.op \in {"set_u8", "set_u16"} -> {o.x}
      [] OTHER -> {}

(* C23: every write to an address in 0x0000 .. 0x7FFF, by set8, by set16   *)
(* or by a store instruction, ends the process and changes no memory; and  *)
(* in every reachable state every address of 0x0000 .. 0x7FFF can be read  *)
(* and holds the byte of the cartridge image the address space was         *)
(* constructed from (both windows show the image's first bank).            *)
RomReadOnly ==
    /\ \A i \in Steps :
          StoreTarget(Before(i), Opcode(i)) \cap RomAddresses # {}
          => /\ After(i).fault # "none"
             /\ After(i).mem = Before(i).mem
             /\ After(i).cart = Before(i).cart
    /\ \A a \in RomProbes :
          /\ get_u8(Machine, a) = CartByte(ImageAtConstruction, a % \h4000)
          /\ Probe(Machine, a).fault = fault

\* The store of A at an immediate address inside the cartridge has ended
\* the process.
RomStoreRejected ==
    /\ Len(trace) = 1
    /\ Opcode(1) = Op("LoadIndImm16", DIR_Memory, 0)
    /\ FetchedWord(Before(1)) = \h1234
    /\ fault = "rom_write"

(* C30: the registers, the memory and the cycle count an instruction       *)
(* leaves, and whether it returns, depend only on the registers, the       *)
(* memory and the descriptor it is executed on: executed on the same       *)
(* registers and memory with the other value of IME and after another      *)
(* cycle count, the descriptor leaves the same registers, memory and cycle *)
(* count; the cartridge and the build are never changed.                   *)
PureTransition ==
    \A i \in Steps :
        LET g == Before(i)
            r == After(i)
            other == execute([g EXCEPT !.ime = 1 - @, !.cycles = @ + 5],
                             Opcode(i))
        IN /\ other.registers = r.registers
           /\ other.mem = r.mem
           /\ other.cycles = r.cycles
           /\ other.fault = r.fault
           /\ r.cart = g.cart /\ other.cart = g.cart
           /\ r.build = g.build

\* An instruction has executed after a return from interrupt left IME = 1
\* and a cycle count of 4.
ExecutedAfterReturn ==
    /\ Len(trace) = 2
    /\ Opcode(1).op = "ReturnInterupt"
    /\ Before(2).ime = 1 /\ Before(2).cycles = 4
    /\ Opcode(2).op = "LoadImm8"
    /\ fault = "none" /\ cycles = 2

\* ------------------------------------------- register-pair group programs
(* Cartridges that repeat four bytes of the register-pair group: the load  *)
(* of an immediate word (0x31 with the word 0x1234), the increment 0x33,   *)
(* the decrement 0x3B, the addition to HL 0x39, and the push and pop 0xF5  *)
(* and 0xF1. The machine starts at each byte of the program with a stack   *)
(* pointer in work RAM or in the high RAM.                                 *)
PairPrograms == {<<\h31, \h34, \h12, \h33>>, <<\h3B, \h39, \hF5, \hF1>>}
PairEntryPoints == {\h0100, \h0101, \h0102, \h0103}
PairStepDepth == 2

PairStepInit ==
    \E b \in Builds, c \in PairPrograms, pc \in PairEntryPoints,
       sp \in StackPointers :
        StartAt(Loaded(b, c, \h1234, \h5678, \hC000, \h9A, \h90, sp, pc),
                PairStepDepth)

PairStepNext == FetchDecodeExecute

PairStepSpec == PairStepInit /\ [][PairStepNext]_vars

\* The descriptors that carry a register pair of the opcode's high nibble.
PairOps == {"LoadImm16", "IncR16", "DecR16", "AddR16", "PushR16", "PopR16"}

(* C31: in the 16-bit load, increment, decrement and add-to-HL bytes the   *)
(* high nibble 3 selects the stack pointer: a step on 0x31 followed by the *)
(* word w leaves SP = w and A and F as they were, a step on 0x33 / 0x3B    *)
(* leaves SP one more / one less (mod 2^16), a step on 0x39 leaves         *)
(* HL = (HL + SP) mod 2^16; only the push and pop bytes 0xF5 and 0xF1      *)
(* decode to a descriptor that selects AF.                                 *)
PairGroupSelection ==
    \A i \in Steps :
        (IsStep(i) /\ OperandAt(Before(i), 3) /\ IsDescriptor(Opcode(i)))
        => LET g == Before(i)
               r == After(i)
               byte == FetchedOpcode(i)
           IN /\ byte = \h31
                 => /\ RegSP(r) = get_u16(g, RegPC(g) + 1)
                    /\ RegA(r) = RegA(g) /\ RegF(r) = RegF(g)
              /\ byte = \h33 => RegSP(r) = WrapU16(RegSP(g) + 1)
              /\ byte = \h3B => RegSP(r) = WrapU16(RegSP(g) - 1)
              /\ byte = \h39
                 => get_r16(r, R16_HL)
                      = WrapU16(get_r16(g, R16_HL) + RegSP(g))
              /\ (Opcode(i).op \in PairOps /\ Opcode(i).x = R16_AF)
                 => byte \in {\hF5, \hF1}

\* The operations of the address space itself, which are not instructions.
MemOps == {"get_u8", "get_u16", "set_u8", "set_u16"}

(* C32: an instruction that ends in a fatal condition (an access to an     *)
(* unusable address or a write into the cartridge) leaves the registers    *)
(* and every memory byte exactly as they were before it began (pc apart,   *)
(* which the fetch of its operand bytes has advanced).                     *)
NoPartialMutation ==
    \A i \in Steps :
        (/\ Opcode(i).op \notin MemOps
         /\ After(i).fault \in {"unusable", "rom_write"})
        => /\ SameButPC(Before(i), After(i))
           /\ After(i).mem = Before(i).mem

\* The value of the 8-bit operand reg on the machine g, as the engine
\* reads it.
Operand8(g, reg) == FetchedRegister8(g, reg)

(* C33: a DecR8 that returns leaves its operand (a register or (HL)),      *)
(* which held v, holding (v - 1) mod 256; so an IncR8 followed by a DecR8  *)
(* of the same operand leaves the operand as it was before the two.        *)
DecR8Decrements ==
    \A i \in Steps :
        (Opcode(i).op = "DecR8" /\ Completed(i))
        => /\ Operand8(After(i), Opcode(i).x)
                = WrapU8(Operand8(Before(i), Opcode(i).x) - 1)
           /\ (i > 1 /\ Opcode(i - 1) = Op("IncR8", Opcode(i).x, 0))
              => Operand8(After(i), Opcode(i).x)
                   = Operand8(Before(i - 1), Opcode(i).x)

(* C34: an IncR8 on an operand holding v (a register, or (HL) at an        *)
(* address that can be read and written) returns, 0xFF wrapping to 0x00    *)
(* without a fault, and leaves the operand holding (v + 1) mod 256, Zero   *)
(* set iff that new value is 0, and Half-Carry set iff (v & 0x0F) = 0x0F.  *)
IncR8Result ==
    \A i \in Steps :
        (/\ Opcode(i).op = "IncR8"
         /\ HLRead(Before(i), Opcode(i).x) /\ HLWrite(Before(i), Opcode(i).x))
        => LET v == Operand8(Before(i), Opcode(i).x)
           IN /\ Completed(i)
              /\ Operand8(After(i), Opcode(i).x) = WrapU8(v + 1)
              /\ FlagAfter(i, FlagZero) <=> WrapU8(v + 1) = 0
              /\ FlagAfter(i, FlagHalfCarry) <=> BitAnd(v, \h0F) = \h0F

(* C35: with c the Carry flag before the instruction (0 or 1) and s the    *)
(* operand, Adc returns and leaves A = (A + s + c) mod 256 and Sbc returns *)
(* and leaves A = (A - s - c) mod 256, in the register and the immediate   *)
(* forms, s = 0xFF with c = 1 and s = 0x00 with c = 1 included.            *)
CarryInArithmetic ==
    \A i \in Steps :
        IsMath(i, {1, 3})
        => LET a == RegA(Before(i))
               s == MathOperand(i)
               c == CarryIn(Before(i))
           IN /\ Completed(i)
              /\ Opcode(i).x = 1 => RegA(After(i)) = WrapU8(a + s + c)
              /\ Opcode(i).x = 3 => RegA(After(i)) = WrapU8(a - s - c)

(* C36: a LoadHLOffSp (0xF8) whose operand byte off can be fetched returns *)
(* and leaves HL = (SP + sign-extended off) mod 2^16, SP and memory as     *)
(* they were (nothing but the operand is read, so no other address can end *)
(* the instruction), Zero and Subtract clear, and Carry clear when the     *)
(* addition carried neither out of bit 7 nor out of bit 15.                *)
LoadHLOffSpRule ==
    \A i \in Steps :
        (Opcode(i).op = "LoadHLOffSp" /\ OperandAt(Before(i), 1))
        => LET sp == RegSP(Before(i))
               off == FetchedByte(Before(i))
           IN /\ Completed(i)
              /\ get_r16(After(i), R16_HL) = WrapU16(sp + AsI8(off))
              /\ RegSP(After(i)) = sp
              /\ After(i).mem = Before(i).mem
              /\ ~FlagAfter(i, FlagZero) /\ ~FlagAfter(i, FlagSubtract)
              /\ (sp + off <= 65535 /\ BitAnd(sp, \hFF) + off <= 255)
                 => ~FlagAfter(i, FlagCarry)

(* C37: a JumpOffImm8 whose condition holds, executed with pc at its       *)
(* operand byte o, returns with pc = (pc + 1 + signed(o)) mod 2^16; a      *)
(* backward jump (o >= 0x80) completes without a fault.                    *)
RelativeJumpTarget ==
    \A i \in Steps :
        (/\ Opcode(i).op = "JumpOffImm8"
         /\ OperandAt(Before(i), 1)
         /\ Taken(i))
        => LET pc == RegPC(Before(i))
               o == FetchedByte(Before(i))
           IN /\ Completed(i)
              /\ RegPC(After(i)) = WrapU16(pc + 1 + AsI8(o))

\* Bit n of the byte v, as 0 or 1.
Bit(v, n) == (v \div (2 ^ n)) % 2

\* The four rotates of the accumulator.
Rotates == {"RotateLeftCircularAccumulator", "RotateLeftAccumulator",
            "RotateRightCircularAccumulator", "RotateRightAccumulator"}

(* C38: the rotate-left-circular sets Carry to the old bit 7 of A and A to *)
(* ((A << 1) | old bit 7) mod 256; the rotate-left-through-carry sets A to *)
(* ((A << 1) | old Carry) mod 256 and Carry to the old bit 7; the right    *)
(* rotates mirror this with bit 0 (the bit rotated in enters at bit 7);    *)
(* all four clear Zero, Subtract and Half-Carry.                           *)
AccumulatorRotates ==
    \A i \in Steps :
        (Opcode(i).op \in Rotates /\ Completed(i))
        => LET a == RegA(Before(i))
               c == CarryIn(Before(i))
               op == Opcode(i).op
               left == op \in {"RotateLeftCircularAccumulator",
                               "RotateLeftAccumulator"}
               out == IF left THEN Bit(a, 7) ELSE Bit(a, 0)
               in == IF op \in {"RotateLeftCircularAccumulator",
                                "RotateRightCircularAccumulator"}
                     THEN out ELSE c
           IN /\ RegA(After(i)) = IF left THEN WrapU8(2 * a) + in
                                  ELSE (a \div 2) + 128 * in
              /\ FlagAfter(i, FlagCarry) <=> out = 1
              /\ ~FlagAfter(i, FlagZero)
              /\ ~FlagAfter(i, FlagSubtract)
              /\ ~FlagAfter(i, FlagHalfCarry)

(* C39: for every MathOp and all A, F and n, MathImm8(op) with the         *)
(* immediate byte n and MathR8(op, r) with an operand r other than A that  *)
(* holds n, executed on the same machine, both return or both do not, and  *)
(* leave the same A and the same flags (they differ in pc and cycles).     *)
ImmediateRegisterAgree ==
    \A i \in Steps :
        (Opcode(i).op = "MathImm8" /\ OperandAt(Before(i), 1))
        => \A r \in OpcodeRegister8 \ {OR8_A} :
              LET g == Before(i)
                  viaRegister == ExecMathR8(g, Opcode(i).x, r)
              IN (HLRead(g, r) /\ Operand8(g, r) = FetchedByte(g))
                 => /\ Faulted(viaRegister) <=> ~Completed(i)
                    /\ Completed(i)
                       => /\ RegA(viaRegister) = RegA(After(i))
                          /\ RegF(viaRegister) = RegF(After(i))

(* C40: a Cp (MathR8 and MathImm8) that returns leaves A, every register   *)
(* other than F and pc, and all memory as they were, and leaves in F       *)
(* exactly the flags a Sub of the same operand, executed on the same       *)
(* machine, leaves.                                                        *)
CompareNonDestructive ==
    \A i \in Steps :
        (IsMath(i, {7}) /\ Completed(i))
        => LET g == Before(i)
               r == After(i)
               sub == execute(g, Op(Opcode(i).op, 2, Opcode(i).y))
           IN /\ RegA(r) = RegA(g)
              /\ \A k \in 0 .. 11 :
                    k \notin {FieldOffset(g.build, "f"),
                              FieldOffset(g.build, "pc"),
                              FieldOffset(g.build, "pc") + 1}
                    => r.registers[k] = g.registers[k]
              /\ r.mem = g.mem
              /\ ~Faulted(sub)
              /\ RegF(r) = RegF(sub)

\* C40's case: a Cp of the operand 0x01 against A = 0x0F has returned with
\* A still 0x0F and the flags of the difference 0x0E (Subtract alone).
CompareDone ==
    \E i \in Steps :
        /\ IsMath(i, {7}) /\ Completed(i)
        /\ RegA(Before(i)) = \h0F /\ MathOperand(i) = \h01
        /\ RegA(After(i)) = \h0F
        /\ RegF(After(i)) = FlagSubtract

====
